---- MODULE Spec2Model ----
(***************************************************************************)
(* A model of signac.contrib: the crawler framework (BaseCrawler,          *)
(* RegexFileCrawler, SignacProjectCrawler, ProjectCrawler), the in-memory  *)
(* SimpleCollection sink and the two export drivers (export,               *)
(* export_pymongo) of src/signac/contrib/__init__.py.                      *)
(*                                                                         *)
(* Text is modelled as a sequence of one-character strings, so that        *)
(* concatenation, suffix tests and parsing are computed on characters.     *)
(* A Python value is a record [t |-> type, v |-> payload]:                 *)
(*   int    v = the integer            float  v = the value in hundredths  *)
(*   str    v = the characters         none   v = 0                        *)
(*   list   v = a sequence of values   dict   v = a document               *)
(*   md5    v = the bytes fed to the digest (the digest kept symbolic,     *)
(*              that is, treated as injective)                             *)
(* A document (a Python dict with string keys) is a function from field    *)
(* names to values.                                                        *)
(***************************************************************************)
EXTENDS Integers, Sequences, FiniteSets, TLC

VARIABLES
    \* ---- export drivers (export, export_pymongo) ----
    driver,        \* which driver runs: "export" or "export_pymongo"
    stream,        \* the pairs <<key, doc>> the crawler's generator yields
    streamRaises,  \* TRUE when the generator raises after its last pair
    chunksize,     \* export_pymongo's chunksize argument
    pos,           \* number of pairs pulled from the generator so far
    operations,    \* export_pymongo's local list of pending ReplaceOne
    flushes,       \* the batches passed to collection.bulk_write, in order
    replaced,      \* the (filter, doc) calls made to collection.replace_one
    xpc,           \* "loop", "done" or "raised"
    xerr,          \* the exception that ended the driver, "none" if none
    \* ---- calculate_hash ----
    hashIn,        \* a pair of (doc, dirpath, fn) triples
    hashOut,       \* the pair of keys computed for them, <<>> before the call
    \* ---- crawling ----
    definitions,   \* RegexFileCrawler.definitions: <<regex, format>> entries
    defineLog,     \* history: the define(regex, format) calls made so far
    crawler,       \* the crawler instance being iterated: [cls, root]
    cpc,           \* "idle", "walking", "done" or "raised"
    cerr,          \* the exception that ended the crawl, "none" if none
    fileIdx,       \* number of files of the walk already processOut
    yielded,       \* the pairs <<key, doc>> yielded by the current crawl
    provenance,    \* history: for each yielded pair, the file it comes from
                   \* and the document docs_from_file gave for it
    index,         \* SimpleCollection._index of the export target
    history,       \* history: one snapshot per crawl that has ended
    jobDirs,       \* the tree: the directory name of each job of the workspace
    badJobDocs,    \* the tree: the jobs whose job document is not valid JSON
    \* ---- two crawl generators pulled in turn ----
    gens,          \* for each of two crawler instances: its generator's frame
    pulls,         \* history: the generator pulled last, 0 before any pull
    \* ---- fetch ----
    fetchCall,     \* <<>>, then <<[via, crawler, doc]>>: the fetch to make
    dropped,       \* the sub-crawler ids gone from the descriptor when reloaded
    fetchOut,      \* <<>> before the call, then <<[handles, err]>>
    \* ---- Job (job.py) ----
    mappings,      \* the caller's statepoint dict objects, by object id
    jobs,          \* the Job instances constructed so far
    workspace,     \* the files of the workspace: directory -> manifest blob
    cwd,           \* the process working directory
    entered,       \* history: the enters not yet left, innermost last
    jobCall,       \* history: the last call made on a Job and how it ended
    \* ---- SimpleCollection driven directly ----
    objects,       \* the caller's document dict objects, by object id
    coll,          \* SimpleCollection._index: key -> id of the object stored
    uuids,         \* the number of uuid.uuid4() calls made
    stored,        \* history: key -> the content the document had when stored
    collCall,      \* history: the last call made on the collection
    \* ---- RegexFileCrawler.process on its own ----
    groupdict,     \* the groupdict handed to process
    processOut,    \* <<>> before the call, then <<[err, doc]>>
    \* ---- processes calling Job.init() on one workspace directory ----
    procs,         \* for each process: where it is in init() and its blob
    wsDir,         \* TRUE when the job's workspace directory exists
    manifestFile,  \* <<>> when absent, else <<[text, creator]>>
    removed,       \* history: the os.remove calls of the error cleanup
    \* ---- registrations made on several crawler classes ----
    definedOn,     \* history: the class each define call was made on
    \* ---- job directories holding a copy of the job document ----
    backups        \* the tree: the jobs with a signac_job_document.json.bak

exportVars == <<driver, stream, streamRaises, chunksize, pos, operations,
                flushes, replaced, xpc, xerr>>
hashVars == <<hashIn, hashOut>>
crawlVars == <<definitions, defineLog, crawler, cpc, cerr, fileIdx, yielded,
               provenance, history, jobDirs, badJobDocs>>
genVars == <<gens, pulls>>
fetchVars == <<fetchCall, dropped, fetchOut>>
jobVars == <<mappings, jobs, workspace, cwd, entered, jobCall>>
collVars == <<objects, coll, uuids, stored, collCall>>
procVars == <<groupdict, processOut>>
raceVars == <<procs, wsDir, manifestFile, removed>>
restVars == <<procVars, raceVars, definedOn, backups>>
otherVars == <<genVars, fetchVars, jobVars, collVars, restVars>>
vars == <<exportVars, hashVars, crawlVars, index, genVars, fetchVars, jobVars,
          collVars, restVars>>

(***************************************************************************)
(* Bounds of the model.                                                    *)
(***************************************************************************)
MaxStream == 3      \* longest crawl output fed to an export driver
MaxChunk == 3       \* largest chunksize
MaxPathLen == 2     \* longest dirpath / filename given to calculate_hash
MaxDefines == 2     \* most define() calls in a run
MaxCrawls == 2      \* most crawls exported into one collection
MaxCalls == 3       \* most calls made on a SimpleCollection driven directly
MaxJobs == 2        \* most Job instances constructed
MaxJobCalls == 3    \* most init/open/close calls made on the Job instances
MaxCapture == 3     \* longest text a regex group captures
MaxProcs == 2       \* processes calling init() on the same job

(***************************************************************************)
(* Python values.                                                          *)
(***************************************************************************)
PyInt(n) == [t |-> "int", v |-> n]
PyFloat(h) == [t |-> "float", v |-> h]
PyStr(s) == [t |-> "str", v |-> s]
PyNone == [t |-> "none", v |-> 0]
PyList(l) == [t |-> "list", v |-> l]
PyDict(d) == [t |-> "dict", v |-> d]

EmptyDoc == [k \in {} |-> PyNone]

\* dict.setdefault(key, value): the document, with key set when absent.
SetDefault(doc, key, value) ==
    IF key \in DOMAIN doc THEN doc ELSE doc @@ (key :> value)

\* doc[key] = value
SetItem(doc, key, value) ==
    [k \in DOMAIN doc \cup {key} |-> IF k = key THEN value ELSE doc[k]]

\* dict.update(other)
Update(doc, other) ==
    [k \in DOMAIN doc \cup DOMAIN other |->
        IF k \in DOMAIN other THEN other[k] ELSE doc[k]]

EndsWith(s, suffix) ==
    /\ Len(suffix) <= Len(s)
    /\ SubSeq(s, Len(s) - Len(suffix) + 1, Len(s)) = suffix

StartsWith(s, prefix) ==
    /\ Len(prefix) <= Len(s)
    /\ SubSeq(s, 1, Len(prefix)) = prefix

Range(seq) == {seq[i] : i \in 1..Len(seq)}

RECURSIVE Flatten(_)
Flatten(ss) == IF ss = <<>> THEN <<>> ELSE Head(ss) \o Flatten(Tail(ss))

(***************************************************************************)
(* json.dumps(doc, sort_keys=True), on characters.  Field names are kept   *)
(* as single symbols between their quotes.                                 *)
(***************************************************************************)
Digits == <<"0", "1", "2", "3", "4", "5", "6", "7", "8", "9">>

RECURSIVE IntChars(_)
IntChars(n) ==
    IF n < 0 THEN <<"-">> \o IntChars(0 - n)
    ELSE IF n < 10 THEN <<Digits[n + 1]>>
    ELSE IntChars(n \div 10) \o <<Digits[(n % 10) + 1]>>

\* repr of a float given in hundredths: 150 -> 1.5, 100 -> 1.0, 125 -> 1.25
FloatChars(h) ==
    LET a == IF h < 0 THEN 0 - h ELSE h
        sign == IF h < 0 THEN <<"-">> ELSE <<>>
        frac == a % 100
    IN  sign \o IntChars(a \div 100) \o <<".">> \o
        (IF frac % 10 = 0 THEN <<Digits[(frac \div 10) + 1]>>
         ELSE <<Digits[(frac \div 10) + 1], Digits[(frac % 10) + 1]>>)

\* The field names of the model in the order sort_keys puts them in.
KeyOrder == <<"_id", "a", "b", "filename", "format", "project", "root",
              "signac_access_crawler_id", "signac_access_crawler_root",
              "signac_access_module", "signac_id", "statepoint">>

SortedKeys(doc) == SelectSeq(KeyOrder, LAMBDA k : k \in DOMAIN doc)

RECURSIVE JsonValue(_), JsonItems(_, _), JsonList(_)
JsonValue(val) ==
    CASE val.t = "int" -> IntChars(val.v)
      [] val.t = "float" -> FloatChars(val.v)
      [] val.t = "str" -> <<"\"">> \o val.v \o <<"\"">>
      [] val.t = "md5" -> <<"\"", "md5(">> \o val.v \o <<")", "\"">>
      [] val.t = "none" -> <<"null">>
      [] val.t = "list" -> <<"[">> \o JsonList(val.v) \o <<"]">>
      [] val.t = "dict" ->
            <<"{">> \o JsonItems(val.v, SortedKeys(val.v)) \o <<"}">>
JsonItems(doc, keys) ==
    IF keys = <<>> THEN <<>>
    ELSE <<"\"", Head(keys), "\"", ":", " ">> \o JsonValue(doc[Head(keys)]) \o
         (IF Tail(keys) = <<>> THEN <<>>
          ELSE <<",", " ">> \o JsonItems(doc, Tail(keys)))
JsonList(l) ==
    IF l = <<>> THEN <<>>
    ELSE JsonValue(Head(l)) \o
         (IF Tail(l) = <<>> THEN <<>> ELSE <<",", " ">> \o JsonList(Tail(l)))

JsonDumps(doc) == JsonValue(PyDict(doc))

(***************************************************************************)
(* BaseCrawler.calculate_hash: md5 over dirpath, fn and the JSON blob,     *)
(* fed in that order with nothing between them.                            *)
(***************************************************************************)
HashFeedSalted(doc, dirpath, fn) ==
    dirpath \o fn \o JsonDumps(doc) \o IntChars(Len(history))
HashFeed(doc, dirpath, fn) == dirpath \o fn \o JsonDumps(doc)

calculate_hash(doc, dirpath, fn) ==
    [t |-> "md5", v |-> HashFeed(doc, dirpath, fn)]

(***************************************************************************)
(* SimpleCollection.                                                       *)
(***************************************************************************)
EmptyIndex == [k \in {} |-> EmptyDoc]

\* replace_one accepts a filter whose keys are exactly ['_id'].
ReplaceOneSupportedHasId(filter) == "_id" \in DOMAIN filter
ReplaceOneSupported(filter) == DOMAIN filter = {"_id"}

\* self._index[filter['_id']] = doc
ReplaceOneIndex(idx, filter, doc) ==
    [k \in DOMAIN idx \cup {filter["_id"]} |->
        IF k = filter["_id"] THEN doc ELSE idx[k]]

(***************************************************************************)
(* The export drivers, fed by any object with a crawl() generator.  The    *)
(* generator's output is drawn in ExportInit: up to MaxStream pairs, and   *)
(* then either StopIteration or an exception.                              *)
(***************************************************************************)
StreamKeys == {PyStr(<<"1">>), PyStr(<<"2">>)}
StreamDocs == {("_id" :> k) @@ ("a" :> PyInt(n)) : k \in StreamKeys, n \in {1, 2}}
StreamPairs == StreamKeys \X StreamDocs

SeqsUpTo(S, n) == UNION {[1..m -> S] : m \in 0..n}

\* pymongo.ReplaceOne(f, doc, upsert=True)
PymongoReplaceOneNoUpsert(f, doc) ==
    [filter |-> f, doc |-> doc, upsert |-> FALSE]
PymongoReplaceOne(f, doc) == [filter |-> f, doc |-> doc, upsert |-> TRUE]

\* What one ReplaceOne operation does to a collection keyed by '_id': the
\* document the filter matches is replaced, and when none matches the
\* document is inserted if the operation is an upsert.
ApplyReplaceOne(idx, op) ==
    IF op.filter["_id"] \in DOMAIN idx \/ op.upsert
    THEN [k \in DOMAIN idx \cup {op.filter["_id"]} |->
             IF k = op.filter["_id"] THEN op.doc ELSE idx[k]]
    ELSE idx

\* collection.bulk_write(operations): the operations applied in order
RECURSIVE BulkWrite(_, _)
BulkWrite(idx, ops) ==
    IF ops = <<>> THEN idx
    ELSE BulkWrite(ApplyReplaceOne(idx, Head(ops)), Tail(ops))

\* The bulk_write calls of a run applied one after the other.
RECURSIVE BulkWrites(_, _)
BulkWrites(idx, batches) ==
    IF batches = <<>> THEN idx
    ELSE BulkWrites(BulkWrite(idx, Head(batches)), Tail(batches))

\* The flush test of export_pymongo's loop.
ChunkFullOff(ops, size) == Len(ops) > size
ChunkFull(ops, size) == Len(ops) >= size

ExportInit ==
    /\ driver \in {"export", "export_pymongo"}
    /\ stream \in SeqsUpTo(StreamPairs, MaxStream)
    /\ streamRaises \in BOOLEAN
    /\ chunksize \in 1..MaxChunk
    /\ pos = 0
    /\ operations = <<>>
    /\ flushes = <<>>
    /\ replaced = <<>>
    /\ xpc = "loop"
    /\ xerr = "none"

\* One iteration of export_pymongo's for loop.
ExportPymongoIterate ==
    /\ driver = "export_pymongo" /\ xpc = "loop" /\ pos < Len(stream)
    /\ LET _id == stream[pos + 1][1]
           doc == stream[pos + 1][2]
           f == ("_id" :> _id)
           ops == Append(operations, PymongoReplaceOne(f, doc))
       IN  /\ pos' = pos + 1
           /\ IF doc["_id"] # _id
              THEN \* assert doc['_id'] == _id
                   /\ xpc' = "raised" /\ xerr' = "AssertionError"
                   /\ UNCHANGED <<operations, flushes>>
              ELSE IF ChunkFull(ops, chunksize)
              THEN /\ flushes' = Append(flushes, ops)
                   /\ operations' = <<>>
                   /\ UNCHANGED <<xpc, xerr>>
              ELSE /\ operations' = ops
                   /\ UNCHANGED <<flushes, xpc, xerr>>
    /\ UNCHANGED <<driver, stream, streamRaises, chunksize, replaced, index>>

\* The generator is exhausted or raises: the loop ends.
ExportPymongoFinish ==
    /\ driver = "export_pymongo" /\ xpc = "loop" /\ pos = Len(stream)
    /\ IF streamRaises
       THEN /\ xpc' = "raised" /\ xerr' = "CrawlError"
            /\ UNCHANGED <<operations, flushes>>
       ELSE /\ xpc' = "done" /\ xerr' = "none"
            /\ flushes' = IF Len(operations) > 0
                          THEN Append(flushes, operations) ELSE flushes
            /\ UNCHANGED operations
    /\ UNCHANGED <<driver, stream, streamRaises, chunksize, pos, replaced, index>>

\* One iteration of export's for loop, into a SimpleCollection.
ExportIterate ==
    /\ driver = "export" /\ xpc = "loop" /\ pos < Len(stream)
    /\ LET _id == stream[pos + 1][1]
           doc == stream[pos + 1][2]
           f == ("_id" :> _id)
       IN  /\ pos' = pos + 1
           /\ IF ReplaceOneSupported(f)
              THEN /\ index' = ReplaceOneIndex(index, f, doc)
                   /\ replaced' = Append(replaced, [filter |-> f, doc |-> doc])
                   /\ UNCHANGED <<xpc, xerr>>
              ELSE /\ xpc' = "raised" /\ xerr' = "NotImplementedError"
                   /\ UNCHANGED <<index, replaced>>
    /\ UNCHANGED <<driver, stream, streamRaises, chunksize, operations, flushes>>

ExportFinish ==
    /\ driver = "export" /\ xpc = "loop" /\ pos = Len(stream)
    /\ IF streamRaises
       THEN xpc' = "raised" /\ xerr' = "CrawlError"
       ELSE xpc' = "done" /\ xerr' = "none"
    /\ UNCHANGED <<driver, stream, streamRaises, chunksize, pos, operations,
                   flushes, replaced, index>>

(***************************************************************************)
(* calculate_hash applied to two (doc, dirpath, fn) triples.               *)
(***************************************************************************)
PathChars == {"a", "b"}
HashPaths == UNION {[1..m -> PathChars] : m \in 1..MaxPathLen}
HashDocs == {EmptyDoc, ("a" :> PyInt(1)), ("a" :> PyStr(<<"a">>))}
HashTriples == HashDocs \X HashPaths \X HashPaths

HashInit ==
    /\ hashIn \in HashTriples \X HashTriples
    /\ hashOut = <<>>

CalculateHash ==
    /\ hashOut = <<>>
    /\ hashOut' = <<calculate_hash(hashIn[1][1], hashIn[1][2], hashIn[1][3]),
                    calculate_hash(hashIn[2][1], hashIn[2][2], hashIn[2][3])>>
    /\ UNCHANGED hashIn

(***************************************************************************)
(* int(value) and float(value) as RegexFileCrawler.process applies them.   *)
(* The outcome r is "ok", "ValueError" or "TypeError".                     *)
(***************************************************************************)
IsDigit(c) == \E i \in 1..10 : Digits[i] = c
DigitVal(c) == (CHOOSE i \in 1..10 : Digits[i] = c) - 1

RECURSIVE ParseNat(_)
ParseNat(s) ==
    IF s = <<>> THEN 0
    ELSE 10 * ParseNat(SubSeq(s, 1, Len(s) - 1)) + DigitVal(s[Len(s)])

IsIntText(s) == Len(s) > 0 /\ \A i \in 1..Len(s) : IsDigit(s[i])

\* digits with one decimal point and at most two digits after it
IsFloatText(s) ==
    /\ Cardinality({i \in 1..Len(s) : s[i] = "."}) = 1
    /\ Len(s) > 1
    /\ \A i \in 1..Len(s) : s[i] = "." \/ IsDigit(s[i])
    /\ \E i \in 1..Len(s) : s[i] = "." /\ Len(s) - i <= 2

ParseFloat(s) ==
    LET dot == CHOOSE i \in 1..Len(s) : s[i] = "."
        frac == SubSeq(s, dot + 1, Len(s))
    IN  100 * ParseNat(SubSeq(s, 1, dot - 1)) +
        (IF Len(frac) = 1 THEN 10 * ParseNat(frac) ELSE ParseNat(frac))

Truncate(h) == IF h >= 0 THEN h \div 100 ELSE 0 - ((0 - h) \div 100)

IntOf(val) ==
    CASE val.t = "int" -> [r |-> "ok", val |-> val]
      [] val.t = "float" -> [r |-> "ok", val |-> PyInt(Truncate(val.v))]
      [] val.t = "str" ->
            IF IsIntText(val.v)
            THEN [r |-> "ok", val |-> PyInt(ParseNat(val.v))]
            ELSE [r |-> "ValueError", val |-> val]
      [] OTHER -> [r |-> "TypeError", val |-> val]

FloatOf(val) ==
    CASE val.t = "int" -> [r |-> "ok", val |-> PyFloat(100 * val.v)]
      [] val.t = "float" -> [r |-> "ok", val |-> val]
      [] val.t = "str" ->
            IF IsIntText(val.v)
            THEN [r |-> "ok", val |-> PyFloat(100 * ParseNat(val.v))]
            ELSE IF IsFloatText(val.v)
            THEN [r |-> "ok", val |-> PyFloat(ParseFloat(val.v))]
            ELSE [r |-> "ValueError", val |-> val]
      [] OTHER -> [r |-> "TypeError", val |-> val]

\* for t in (int, float): try t(value), on ValueError the next; else keep.
\* first and second are the outcomes of the two conversions, in that order.
FirstThatParses(first, second, val) ==
    IF first.r # "ValueError" THEN first
    ELSE IF second.r # "ValueError" THEN second
    ELSE [r |-> "ok", val |-> val]

CoerceFloatFirst(val) == FirstThatParses(FloatOf(val), IntOf(val), val)
Coerce(val) == FirstThatParses(IntOf(val), FloatOf(val), val)

\* BaseCrawler.process
BaseProcess(doc) == doc

\* RegexFileCrawler.process: [err, doc]; a TypeError leaves the loop.
\* coerced holds the outcome of the conversions for each key.
ProcessResult(doc, coerced) ==
    IF \E k \in DOMAIN doc : coerced[k].r = "TypeError"
    THEN [err |-> "TypeError", doc |-> doc]
    ELSE [err |-> "none",
          doc |-> BaseProcess([k \in DOMAIN doc |-> coerced[k].val])]

RegexProcess(doc) == ProcessResult(doc, [k \in DOMAIN doc |-> Coerce(doc[k])])

(***************************************************************************)
(* The directory tree that is crawled.  A path is text whose symbols are   *)
(* single characters, "/" and the fixed name parts of the file layout.     *)
(*                                                                         *)
(*   /r/signac_access.py            descriptor of the top project          *)
(*   /r/w/<job 1>/                  manifest, job document, 7.txt          *)
(*   /r/w/<job 2>/                  manifest, 3.txt, 1.5.txt               *)
(*   /r/w/<job 3>/                  manifest, job document                 *)
(*   /r/p/n/signac_access.py        descriptor of a nested project         *)
(*   /r/p/n/5.txt                                                          *)
(***************************************************************************)
FN_CRAWLER == <<"signac_access", ".py">>
fn_statepoint == <<"signac_statepoint", ".json">>
FN_JOB_DOCUMENT == <<"signac_job_document", ".json">>
FN_JOB_DOCUMENT_BAK == FN_JOB_DOCUMENT \o <<".bak">>

Join(dirpath, fn) == dirpath \o <<"/">> \o fn

\* os.path.relpath(path, start), for a path at or below start
RelPath(path, start) ==
    IF path = start THEN <<".">> ELSE SubSeq(path, Len(start) + 2, Len(path))

\* os.path.abspath of a path that is absolute already
AbsPath(path) == path

RootDir == <<"/", "r">>
WorkspaceDir == Join(RootDir, <<"w">>)
NestedRoot == Join(RootDir, <<"p">>)
NestedDir == Join(NestedRoot, <<"n">>)

\* The manifests of the three jobs.
StatePoints == << ("a" :> PyInt(2)),
                  ("a" :> PyFloat(150)),
                  ("b" :> PyList(<<PyInt(1)>>)) >>
Jobs == 1..Len(StatePoints)

\* hashing.generate_hash_from_spec: the identity of a parameter set, a
\* digest that differs for different parameter sets.
IdSymbols == <<"h1", "h2", "h3">>
generate_hash_from_spec(sp) ==
    <<IdSymbols[CHOOSE j \in Jobs : StatePoints[j] = sp]>>

\* A job directory carries its identity as its name, or another name.
JobDirNames(j) == {generate_hash_from_spec(StatePoints[j]), <<"h0">>}
JobPath(j) == Join(WorkspaceDir, jobDirs[j])

\* The content of each job's signac_job_document.json.
JobDocument == ("b" :> PyInt(5))

\* json.loads of the job document found in dirpath: [err, doc].
LoadJobDocument(dirpath) ==
    IF \E j \in badJobDocs : JobPath(j) = dirpath
    THEN [err |-> "ValueError", doc |-> EmptyDoc]
    ELSE [err |-> "none", doc |-> JobDocument]

File(dirpath, fn) == [dirpath |-> dirpath, fn |-> fn]

\* The copy of its job document a job directory may hold besides it.
BackupOf(j) ==
    IF j \in backups THEN <<File(JobPath(j), FN_JOB_DOCUMENT_BAK)>> ELSE <<>>

\* Every regular file of the tree, in the order the walk visits them.
AllFiles ==
    << File(RootDir, FN_CRAWLER),
       File(JobPath(1), fn_statepoint),
       File(JobPath(1), FN_JOB_DOCUMENT) >> \o BackupOf(1) \o
    << File(JobPath(1), <<"7", ".txt">>),
       File(JobPath(2), fn_statepoint),
       File(JobPath(2), <<"3", ".txt">>),
       File(JobPath(2), <<"1", ".", "5", ".txt">>),
       File(JobPath(3), fn_statepoint),
       File(JobPath(3), FN_JOB_DOCUMENT) >> \o BackupOf(3) \o
    << File(NestedDir, FN_CRAWLER),
       File(NestedDir, <<"5", ".txt">>) >>

\* utility.walkdepth(root, 0): the files at or below root.
walkdepth(root) ==
    SelectSeq(AllFiles, LAMBDA f : f.dirpath = root
                                   \/ StartsWith(f.dirpath, root \o <<"/">>))

\* The manifest found in a directory, <<>> when there is none.
ManifestOf(dirpath) ==
    IF \E j \in Jobs : JobPath(j) = dirpath
    THEN <<StatePoints[CHOOSE j \in Jobs : JobPath(j) = dirpath]>>
    ELSE <<>>

(***************************************************************************)
(* Registrations.  A regex is one of                                       *)
(*   [group |-> "",  ext |-> e]     .*\.e                                  *)
(*   [group |-> g,   ext |-> e]     (?P<g>[^/]+)\.e                        *)
(* searched in the file's path.                                            *)
(***************************************************************************)
Regexes == {[group |-> "", ext |-> ".txt"], [group |-> "a", ext |-> ".txt"]}
Formats == {"Text", "Raw"}
CrawlerClasses == {"RegexFileCrawler", "SignacProjectCrawler"}

\* The places of path where the regex's extension ends a match.
MatchEnds(regex, path) ==
    {i \in 1..Len(path) :
        /\ path[i] = regex.ext
        /\ regex.group # "" => (i > 1 /\ path[i - 1] # "/")}

\* regex.search(path): whether it matches
Search(regex, path) == MatchEnds(regex, path) # {}

\* m.groupdict() of the match
GroupDict(regex, path) ==
    IF regex.group = "" THEN EmptyDoc
    ELSE LET ends == MatchEnds(regex, path)
             e == CHOOSE i \in ends : \A k \in ends : i <= k
             slashes == {i \in 1..(e - 1) : path[i] = "/"}
             start == IF slashes = {} THEN 1
                      ELSE 1 + CHOOSE i \in slashes : \A k \in slashes : k <= i
         IN  (regex.group :> PyStr(SubSeq(path, start, e - 1)))

\* cls.definitions[regex] = format_ on a dict kept in insertion order
DefineDict(defs, regex, format) ==
    IF \E i \in 1..Len(defs) : defs[i][1] = regex
    THEN [i \in 1..Len(defs) |->
            IF defs[i][1] = regex THEN <<regex, format>> ELSE defs[i]]
    ELSE Append(defs, <<regex, format>>)

(***************************************************************************)
(* The crawlers.  An extractor returns [docs, err]: the documents it       *)
(* yields, in order, and the exception that ended it ("none" if none).     *)
(* Operators named ...Then take the result of a call as a parameter and    *)
(* hold the code that follows the call.                                    *)
(***************************************************************************)
Crawler(cls, root) == [cls |-> cls, root |-> root]

NoDocs == [docs |-> <<>>, err |-> "none"]
Raise(err) == [docs |-> <<>>, err |-> err]
\* docs are yielded, and then the rest of the generator runs
YieldThen(docs, rest) == [docs |-> docs \o rest.docs, err |-> rest.err]

\* assert dirpath.endswith(signac_id)
CheckedStatepoint(dirpath, signac_id, statepoint) ==
    [err |-> IF EndsWith(dirpath, signac_id) THEN "none" ELSE "AssertionError",
     signac_id |-> signac_id,
     statepoint |-> statepoint]

ManifestThen(dirpath, manifest) ==
    IF manifest = <<>>
    THEN [err |-> "FileNotFoundError", signac_id |-> <<>>,
          statepoint |-> EmptyDoc]
    ELSE CheckedStatepoint(dirpath, generate_hash_from_spec(manifest[1]),
                           manifest[1])

\* SignacProjectCrawler.get_statepoint
get_statepoint(dirpath) == ManifestThen(dirpath, ManifestOf(dirpath))

\* SignacProjectCrawler.process, sp being what get_statepoint returned
SignacProcessThen(doc, sp) ==
    IF sp.err # "none" THEN [err |-> sp.err, doc |-> doc]
    ELSE RegexProcess(SetItem(Update(doc, sp.statepoint),
                              "signac_id", PyStr(sp.signac_id)))

SignacProcess(doc, dirpath) == SignacProcessThen(doc, get_statepoint(dirpath))

\* self.process, by the class of self
Process(cls, doc, dirpath) ==
    IF cls = "SignacProjectCrawler" THEN SignacProcess(doc, dirpath)
    ELSE RegexProcess(doc)

\* The document RegexFileCrawler.docs_from_file builds for one match.
RegexDoc(processed, root, dirpath, fn, format) ==
    [k \in DOMAIN processed \cup {"filename", "root", "format"} |->
        CASE k = "filename" -> PyStr(RelPath(Join(dirpath, fn), root))
          [] k = "root" -> PyStr(AbsPath(root))
          [] k = "format" -> PyStr(<<format>>)
          [] OTHER -> processed[k]]

RECURSIVE RegexDocsFrom(_, _, _, _, _)

\* The i-th registration matched and process returned p.
RegexMatchThen(cr, defs, dirpath, fn, i, p) ==
    IF p.err # "none" THEN Raise(p.err)
    ELSE YieldThen(<<RegexDoc(p.doc, cr.root, dirpath, fn, defs[i][2])>>,
                   RegexDocsFrom(cr, defs, dirpath, fn, i + 1))

\* RegexFileCrawler.docs_from_file, from the i-th registration on
RegexDocsFrom(cr, defs, dirpath, fn, i) ==
    IF i > Len(defs) THEN NoDocs
    ELSE IF ~Search(defs[i][1], Join(dirpath, fn))
    THEN RegexDocsFrom(cr, defs, dirpath, fn, i + 1)
    ELSE RegexMatchThen(cr, defs, dirpath, fn, i,
             Process(cr.cls, GroupDict(defs[i][1], Join(dirpath, fn)), dirpath))

RegexDocsFromFile(cr, defs, dirpath, fn) ==
    RegexDocsFrom(cr, defs, dirpath, fn, 1)

\* re.match('.*signac_job_document\.json', fn)
IsJobDocName(fn) ==
    \E i \in 1..(Len(fn) - 1) :
        fn[i] = FN_JOB_DOCUMENT[1] /\ fn[i + 1] = FN_JOB_DOCUMENT[2]

\* The job document SignacProjectCrawler.docs_from_file yields.
JobDoc(job_doc, sp) ==
    [k \in DOMAIN job_doc \cup {"_id", "signac_id", "statepoint", "format"} |->
        CASE k = "_id" -> PyStr(sp.signac_id)
          [] k = "signac_id" -> PyStr(sp.signac_id)
          [] k = "statepoint" -> PyDict(sp.statepoint)
          [] k = "format" -> PyStr(<<"signac_job_document">>)
          [] OTHER -> job_doc[k]]

\* SignacProjectCrawler.docs_from_file; loaded is what json.loads gives for
\* the file, sp what get_statepoint returns and inherited what
\* super().docs_from_file yields.
SignacDocsThen(fn, loaded, sp, inherited) ==
    IF ~IsJobDocName(fn) THEN inherited
    ELSE IF loaded.err # "none" THEN Raise(loaded.err)
    ELSE IF sp.err # "none" THEN Raise(sp.err)
    ELSE YieldThen(<<JobDoc(loaded.doc, sp)>>, inherited)

SignacDocsFromFile(cr, defs, dirpath, fn) ==
    SignacDocsThen(fn, LoadJobDocument(dirpath), get_statepoint(dirpath),
                   RegexDocsFromFile(cr, defs, dirpath, fn))

\* module.get_crawlers(dirpath) of the descriptor found in dirpath: the
\* sub-crawlers by id, in the order of the mapping.
get_crawlers(dirpath) ==
    IF dirpath = RootDir
    THEN << <<PyStr(<<"main">>), Crawler("SignacProjectCrawler", WorkspaceDir)>>,
            <<PyStr(<<"nested">>), Crawler("ProjectCrawler", NestedRoot)>> >>
    ELSE << <<PyStr(<<"txt">>), Crawler("RegexFileCrawler", dirpath)>> >>

\* The tags ProjectCrawler.docs_from_file puts on a sub-crawler's document.
ProjectTagSetDefaultRoot(doc, root, dirpath, fn, crawler_id) ==
    [k \in DOMAIN doc \cup {"project", "signac_access_crawler_root",
                            "signac_access_module", "signac_access_crawler_id"} |->
        CASE k = "project" /\ k \notin DOMAIN doc -> PyStr(RelPath(dirpath, root))
          [] k = "signac_access_crawler_root" /\ k \notin DOMAIN doc ->
                PyStr(AbsPath(dirpath))
          [] k = "signac_access_module" -> PyStr(fn)
          [] k = "signac_access_crawler_id" -> crawler_id
          [] OTHER -> doc[k]]
ProjectTag(doc, root, dirpath, fn, crawler_id) ==
    [k \in DOMAIN doc \cup {"project", "signac_access_crawler_root",
                            "signac_access_module", "signac_access_crawler_id"} |->
        CASE k = "project" /\ k \notin DOMAIN doc -> PyStr(RelPath(dirpath, root))
          [] k = "signac_access_crawler_root" -> PyStr(AbsPath(dirpath))
          [] k = "signac_access_module" -> PyStr(fn)
          [] k = "signac_access_crawler_id" -> crawler_id
          [] OTHER -> doc[k]]

\* _id = doc.setdefault('_id', hash), the hash computed on the document d1
\* that has its format entry.
YieldWithId(d1, hash) == <<SetDefault(d1, "_id", hash)["_id"], SetDefault(d1, "_id", hash)>>

CrawlYieldHash(d1, dirpath, fn) ==
    YieldWithId(d1, calculate_hash(d1, dirpath, fn))

\* What BaseCrawler.crawl yields for a document of docs_from_file.
CrawlYieldFormatNone(doc, dirpath, fn) ==
    CrawlYieldHash(SetItem(doc, "format", PyNone), dirpath, fn)
CrawlYield(doc, dirpath, fn) ==
    CrawlYieldHash(SetDefault(doc, "format", PyNone), dirpath, fn)

\* The generator's output for what docs_from_file gave: the pairs it
\* yields, the documents they were made from, and how it ends.
CrawlPairs(r, dirpath, fn) ==
    [pairs |-> [k \in 1..Len(r.docs) |-> CrawlYield(r.docs[k], dirpath, fn)],
     docs |-> r.docs,
     err |-> r.err]

\* r was yielded by the crawl so far, and then rest
PairsThen(r, rest) ==
    IF r.err # "none" THEN r
    ELSE [pairs |-> r.pairs \o rest.pairs, docs |-> r.docs \o rest.docs,
          err |-> rest.err]

RECURSIVE DocsFromFile(_, _, _, _), CrawlFrom(_, _, _, _),
          ProjectDocsFrom(_, _, _, _, _, _)

\* The i-th sub-crawler's crawl gave sub: its documents are tagged.
SubCrawlThen(cr, defs, dirpath, fn, crawlers, i, sub) ==
    [docs |-> [k \in 1..Len(sub.pairs) |->
                  ProjectTag(sub.pairs[k][2], cr.root, dirpath, fn,
                             crawlers[i][1])],
     err |-> sub.err]

\* docs were yielded and ended with docs.err; on "none" rest follows
DocsThen(r, rest) ==
    IF r.err # "none" THEN r ELSE YieldThen(r.docs, rest)

\* ProjectCrawler.docs_from_file, from the i-th sub-crawler on
ProjectDocsFrom(cr, defs, dirpath, fn, crawlers, i) ==
    IF i > Len(crawlers) THEN NoDocs
    ELSE DocsThen(
            SubCrawlThen(cr, defs, dirpath, fn, crawlers, i,
                CrawlFrom(crawlers[i][2], defs,
                          walkdepth(crawlers[i][2].root), 1)),
            ProjectDocsFrom(cr, defs, dirpath, fn, crawlers, i + 1))

\* self.docs_from_file(dirpath, fn), by the class of self
DocsFromFile(cr, defs, dirpath, fn) ==
    CASE cr.cls = "RegexFileCrawler" ->
            RegexDocsFromFile(cr, defs, dirpath, fn)
      [] cr.cls = "SignacProjectCrawler" ->
            SignacDocsFromFile(cr, defs, dirpath, fn)
      [] cr.cls = "ProjectCrawler" ->
            IF fn = FN_CRAWLER
            THEN ProjectDocsFrom(cr, defs, dirpath, fn,
                                 get_crawlers(dirpath), 1)
            ELSE NoDocs

\* The body of BaseCrawler.crawl's loop for one file: [pairs, err].
CrawlFile(cr, defs, f) ==
    CrawlPairs(DocsFromFile(cr, defs, f.dirpath, f.fn), f.dirpath, f.fn)

\* BaseCrawler.crawl over files[i..]: everything it yields, and how it ends.
CrawlFrom(cr, defs, files, i) ==
    IF i > Len(files) THEN [pairs |-> <<>>, docs |-> <<>>, err |-> "none"]
    ELSE PairsThen(CrawlFile(cr, defs, files[i]),
                   CrawlFrom(cr, defs, files, i + 1))

\* export's loop body applied to pairs: replace_one for each.
RECURSIVE ExportPairs(_, _)
ExportPairs(idx, pairs) ==
    IF pairs = <<>> THEN idx
    ELSE ExportPairs(ReplaceOneIndex(idx, ("_id" :> Head(pairs)[1]),
                                     Head(pairs)[2]),
                     Tail(pairs))

(***************************************************************************)
(* Crawling a tree and exporting the crawl into a SimpleCollection.        *)
(***************************************************************************)
CrawlerChoices == {Crawler("RegexFileCrawler", WorkspaceDir),
                   Crawler("SignacProjectCrawler", WorkspaceDir),
                   Crawler("ProjectCrawler", RootDir)}

\* What is recorded of a crawl when it ends.
Snapshot(outcome, err, pairs, idx) ==
    [crawler |-> crawler, defs |-> definitions, log |-> defineLog,
     outcome |-> outcome, err |-> err, yielded |-> pairs, index |-> idx]

CrawlInit ==
    /\ definitions = <<>>
    /\ defineLog = <<>>
    /\ crawler = Crawler("RegexFileCrawler", WorkspaceDir)
    /\ cpc = "idle"
    /\ cerr = "none"
    /\ fileIdx = 0
    /\ yielded = <<>>
    /\ provenance = <<>>
    /\ history = <<>>
    /\ jobDirs \in {d \in [Jobs -> UNION {JobDirNames(j) : j \in Jobs}] :
                        /\ \A j \in Jobs : d[j] \in JobDirNames(j)
                        /\ d[3] = generate_hash_from_spec(StatePoints[3])}
    /\ badJobDocs \in {{}, {1}}
    /\ badJobDocs # {} => jobDirs = [j \in Jobs |->
                                        generate_hash_from_spec(StatePoints[j])]

\* RegexFileCrawler.define, called on class cls.  Registrations are made
\* where the crawler classes are set up, before any crawl is started.
Define(cls, regex, format) ==
    /\ cpc = "idle"
    /\ Len(defineLog) < MaxDefines
    /\ definitions' = DefineDict(definitions, regex, format)
    /\ defineLog' = Append(defineLog, <<regex, format>>)
    /\ UNCHANGED <<crawler, cpc, cerr, fileIdx, yielded, provenance, history,
                   jobDirs, badJobDocs, index>>

\* export(cr, collection) is called: the crawl's generator is created.
StartCrawl(cr) ==
    /\ cpc # "walking"
    /\ Len(history) < MaxCrawls
    /\ crawler' = cr
    /\ cpc' = "walking"
    /\ cerr' = "none"
    /\ fileIdx' = 0
    /\ yielded' = <<>>
    /\ provenance' = <<>>
    /\ UNCHANGED <<definitions, defineLog, history, jobDirs, badJobDocs, index>>

\* The crawl handled its next file f with result r; export stored the pairs.
CrawlStepThen(f, r) ==
    /\ yielded' = yielded \o r.pairs
    /\ provenance' = provenance \o
            [k \in 1..Len(r.pairs) |-> [file |-> f, extracted |-> r.docs[k]]]
    /\ index' = ExportPairs(index, r.pairs)
    /\ fileIdx' = fileIdx + 1
    /\ IF r.err # "none"
       THEN /\ cpc' = "raised"
            /\ cerr' = r.err
            /\ history' = Append(history,
                                  Snapshot("raised", r.err, yielded', index'))
       ELSE UNCHANGED <<cpc, cerr, history>>

\* The crawl handles its next file; export stores what it yields.
CrawlStep ==
    /\ cpc = "walking"
    /\ fileIdx < Len(walkdepth(crawler.root))
    /\ CrawlStepThen(walkdepth(crawler.root)[fileIdx + 1],
                     CrawlFile(crawler, definitions,
                               walkdepth(crawler.root)[fileIdx + 1]))
    /\ UNCHANGED <<definitions, defineLog, crawler, jobDirs, badJobDocs>>

\* The walk is over: the generator ends and export returns.
CrawlFinish ==
    /\ cpc = "walking"
    /\ fileIdx = Len(walkdepth(crawler.root))
    /\ cpc' = "done"
    /\ history' = Append(history, Snapshot("done", "none", yielded, index))
    /\ UNCHANGED <<definitions, defineLog, crawler, cerr, fileIdx, yielded,
                   provenance, jobDirs, badJobDocs, index>>

(***************************************************************************)
(* Specifications.                                                         *)
(***************************************************************************)
ExportIdle ==
    /\ driver = "export" /\ stream = <<>> /\ streamRaises = FALSE
    /\ chunksize = 1 /\ pos = 0 /\ operations = <<>> /\ flushes = <<>>
    /\ replaced = <<>> /\ xpc = "done" /\ xerr = "none"

HashIdle == hashIn = <<>> /\ hashOut = <<>>

CrawlIdle ==
    /\ definitions = <<>> /\ defineLog = <<>>
    /\ crawler = Crawler("RegexFileCrawler", WorkspaceDir)
    /\ cpc = "idle" /\ cerr = "none" /\ fileIdx = 0 /\ yielded = <<>>
    /\ provenance = <<>> /\ history = <<>>
    /\ jobDirs = [j \in Jobs |-> generate_hash_from_spec(StatePoints[j])]
    /\ badJobDocs = {}

GenIdle == gens = <<>> /\ pulls = 0

FetchIdle == fetchCall = <<>> /\ dropped = {} /\ fetchOut = <<>>

JobIdle ==
    /\ mappings = <<>> /\ jobs = <<>> /\ workspace = <<>> /\ cwd = <<>>
    /\ entered = <<>> /\ jobCall = <<>>

CollIdle ==
    /\ objects = <<>> /\ coll = <<>> /\ uuids = 0 /\ stored = <<>>
    /\ collCall = <<>>

ProcIdle == groupdict = <<>> /\ processOut = <<>>

RaceIdle ==
    procs = <<>> /\ wsDir = FALSE /\ manifestFile = <<>> /\ removed = <<>>

RestIdle == ProcIdle /\ RaceIdle /\ definedOn = <<>> /\ backups = {}

OtherIdle == GenIdle /\ FetchIdle /\ JobIdle /\ CollIdle /\ RestIdle

\* Crawls and their export into a SimpleCollection.
Init == CrawlInit /\ index = EmptyIndex /\ ExportIdle /\ HashIdle /\ OtherIdle

Next ==
    \/ /\ \E cls \in CrawlerClasses, regex \in Regexes, format \in Formats :
             Define(cls, regex, format)
       /\ UNCHANGED <<exportVars, hashVars, otherVars>>
    \/ /\ \E cr \in CrawlerChoices : StartCrawl(cr)
       /\ UNCHANGED <<exportVars, hashVars, otherVars>>
    \/ CrawlStep /\ UNCHANGED <<exportVars, hashVars, otherVars>>
    \/ CrawlFinish /\ UNCHANGED <<exportVars, hashVars, otherVars>>

Spec == Init /\ [][Next]_vars

\* The export drivers on an arbitrary crawl output.
InitExport ==
    ExportInit /\ index = EmptyIndex /\ CrawlIdle /\ HashIdle /\ OtherIdle

NextExport ==
    \/ ExportPymongoIterate /\ UNCHANGED <<hashVars, crawlVars, otherVars>>
    \/ ExportPymongoFinish /\ UNCHANGED <<hashVars, crawlVars, otherVars>>
    \/ ExportIterate /\ UNCHANGED <<hashVars, crawlVars, otherVars>>
    \/ ExportFinish /\ UNCHANGED <<hashVars, crawlVars, otherVars>>

SpecExport == InitExport /\ [][NextExport]_vars

\* calculate_hash on pairs of inputs.
InitHash ==
    HashInit /\ index = EmptyIndex /\ CrawlIdle /\ ExportIdle /\ OtherIdle

NextHash ==
    CalculateHash /\ UNCHANGED <<exportVars, crawlVars, index, genVars,
                                 fetchVars, jobVars, collVars, restVars>>

SpecHash == InitHash /\ [][NextHash]_vars

(***************************************************************************)
(* Registrations made on two crawler classes, then one crawl.  Both        *)
(* classes inherit the attribute definitions = dict() of RegexFileCrawler  *)
(* (line 108); neither class statement assigns it anew, so cls.definitions *)
(* in define is that one dict whatever cls is, which is why the model has  *)
(* one variable definitions.  "RegexFileCrawler" stands for the class      *)
(* itself and for a subclass that adds nothing to it.                      *)
(***************************************************************************)
DefineOn(cls, regex, format) ==
    /\ Define(cls, regex, format)
    /\ definedOn' = Append(definedOn, cls)

\* The dict a class would hold had only the define calls made on it
\* reached it: log[i..] replayed for the calls on cls.
RECURSIVE OwnDefinitionsFrom(_, _, _, _)
OwnDefinitionsFrom(cls, log, on, defs) ==
    IF log = <<>> THEN defs
    ELSE OwnDefinitionsFrom(cls, Tail(log), Tail(on),
                            IF Head(on) = cls
                            THEN DefineDict(defs, Head(log)[1], Head(log)[2])
                            ELSE defs)

OwnDefinitions(cls) == OwnDefinitionsFrom(cls, defineLog, definedOn, <<>>)

ClassCrawlers == {Crawler(cls, WorkspaceDir) : cls \in CrawlerClasses}

InitClasses ==
    /\ CrawlIdle /\ index = EmptyIndex /\ ExportIdle /\ HashIdle
    /\ GenIdle /\ FetchIdle /\ JobIdle /\ CollIdle /\ ProcIdle /\ RaceIdle
    /\ definedOn = <<>> /\ backups = {}

ClassesFrame ==
    UNCHANGED <<exportVars, hashVars, genVars, fetchVars, jobVars, collVars,
                procVars, raceVars, backups>>

NextClasses ==
    \/ /\ \E cls \in CrawlerClasses, regex \in Regexes, format \in Formats :
             DefineOn(cls, regex, format)
       /\ ClassesFrame
    \/ /\ \E cr \in ClassCrawlers : cpc = "idle" /\ StartCrawl(cr)
       /\ UNCHANGED definedOn /\ ClassesFrame
    \/ CrawlStep /\ UNCHANGED definedOn /\ ClassesFrame
    \/ CrawlFinish /\ UNCHANGED definedOn /\ ClassesFrame

SpecClasses == InitClasses /\ [][NextClasses]_vars

(***************************************************************************)
(* RegexFileCrawler.process applied to the groupdict of a match: one or    *)
(* two named groups, each holding the text it captured.                     *)
(***************************************************************************)
CaptureChars == {"1", "5", ".", "a"}
CaptureTexts(n) == UNION {[1..m -> CaptureChars] : m \in 1..n}

CapturedDicts ==
    {EmptyDoc}
    \cup {("a" :> PyStr(s)) : s \in CaptureTexts(MaxCapture)}
    \cup {("a" :> PyStr(s)) @@ ("b" :> PyStr(t)) :
              s \in CaptureTexts(MaxCapture), t \in CaptureTexts(1)}

ProcessInit == groupdict \in CapturedDicts /\ processOut = <<>>

\* doc = self.process(m.groupdict(), dirpath, fn)
ProcessCall ==
    /\ processOut = <<>>
    /\ processOut' = <<RegexProcess(groupdict)>>
    /\ UNCHANGED groupdict

InitProcess ==
    /\ ProcessInit /\ index = EmptyIndex /\ CrawlIdle /\ ExportIdle /\ HashIdle
    /\ GenIdle /\ FetchIdle /\ JobIdle /\ CollIdle /\ RaceIdle
    /\ definedOn = <<>> /\ backups = {}

NextProcess ==
    ProcessCall /\ UNCHANGED <<exportVars, hashVars, crawlVars, index, genVars,
                               fetchVars, jobVars, collVars, raceVars,
                               definedOn, backups>>

SpecProcess == InitProcess /\ [][NextProcess]_vars

(***************************************************************************)
(* Two crawler instances whose crawl() generators are pulled in any order. *)
(* A generator's frame holds its position in the walk (fi files done, di   *)
(* documents of the current file yielded); a pull resumes it until its     *)
(* next yield, its end or an exception.                                    *)
(***************************************************************************)
Instances == 1..2

\* The states RegexFileCrawler.definitions can be in after define calls.
DefinitionStates ==
    {d \in SeqsUpTo(Regexes \X Formats, Cardinality(Regexes)) :
        \A i \in 1..Len(d), k \in 1..Len(d) : i # k => d[i][1] # d[k][1]}

\* The frame of a generator that has not been pulled yet.
NewGenerator(cr) ==
    [crawler |-> cr, fi |-> 0, di |-> 0, out |-> <<>>, state |-> "suspended",
     err |-> "none"]

\* The loop variables generator k resumes with: those of its own frame.
GenCursorShared(g, k) == [fi |-> g[1].fi, di |-> g[1].di]
GenCursor(g, k) == [fi |-> g[k].fi, di |-> g[k].di]

RECURSIVE Resume(_, _, _, _, _)

\* The generator stands in file fi + 1, for which docs_from_file gives r.
ResumeThen(cr, defs, files, fi, di, r) ==
    IF di < Len(r.pairs)
    THEN [kind |-> "yield", pair |-> r.pairs[di + 1], fi |-> fi, di |-> di + 1,
          err |-> "none"]
    ELSE IF r.err # "none"
    THEN [kind |-> "raise", pair |-> <<>>, fi |-> fi, di |-> di, err |-> r.err]
    ELSE Resume(cr, defs, files, fi + 1, 0)

\* BaseCrawler.crawl resumed at (fi, di), up to its next yield.
Resume(cr, defs, files, fi, di) ==
    IF fi >= Len(files)
    THEN [kind |-> "stop", pair |-> <<>>, fi |-> fi, di |-> di, err |-> "none"]
    ELSE ResumeThen(cr, defs, files, fi, di, CrawlFile(cr, defs, files[fi + 1]))

\* The frame of a generator after the pull that gave res.
AfterPull(g, res) ==
    [crawler |-> g.crawler, fi |-> res.fi, di |-> res.di,
     out |-> IF res.kind = "yield" THEN Append(g.out, res.pair) ELSE g.out,
     state |-> CASE res.kind = "yield" -> "suspended"
                 [] res.kind = "stop" -> "done"
                 [] res.kind = "raise" -> "raised",
     err |-> res.err]

GenInit ==
    /\ gens \in [Instances -> {NewGenerator(cr) : cr \in CrawlerChoices}]
    /\ pulls = 0

\* next() on the generator of instance k
Pull(k) ==
    /\ gens[k].state = "suspended"
    /\ gens' = [gens EXCEPT ![k] =
                   AfterPull(gens[k],
                       Resume(gens[k].crawler, definitions,
                              walkdepth(gens[k].crawler.root),
                              GenCursor(gens, k).fi, GenCursor(gens, k).di))]
    /\ pulls' = k

\* The registrations the generators work with: any of the patterns, in
\* any order, one format for each.
InterleaveDefinitions ==
    {d \in DefinitionStates :
        \A i \in 1..Len(d) :
            d[i][2] = IF d[i][1].group = "" THEN "Text" ELSE "Raw"}

\* The tree and the registrations the generators work on.
InitInterleave ==
    /\ definitions \in InterleaveDefinitions
    /\ defineLog = <<>>
    /\ crawler = Crawler("RegexFileCrawler", WorkspaceDir)
    /\ cpc = "idle" /\ cerr = "none" /\ fileIdx = 0 /\ yielded = <<>>
    /\ provenance = <<>> /\ history = <<>>
    /\ jobDirs \in {d \in [Jobs -> UNION {JobDirNames(j) : j \in Jobs}] :
                        /\ \A j \in Jobs : d[j] \in JobDirNames(j)
                        /\ \A j \in Jobs \ {3} :
                              d[j] = generate_hash_from_spec(StatePoints[j])}
    /\ badJobDocs = {}
    /\ GenInit
    /\ index = EmptyIndex /\ ExportIdle /\ HashIdle
    /\ FetchIdle /\ JobIdle /\ CollIdle /\ RestIdle

NextInterleave ==
    \E k \in Instances :
        Pull(k) /\ UNCHANGED <<exportVars, hashVars, crawlVars, index,
                               fetchVars, jobVars, collVars, restVars>>

SpecInterleave == InitInterleave /\ [][NextInterleave]_vars

(***************************************************************************)
(* One crawl, exported into an empty SimpleCollection, of a tree in which  *)
(* job directories may hold a second file whose name matches the           *)
(* job-document rule: re.match('.*signac_job_document\.json', fn) accepts  *)
(* any name that contains the job document's name, a backup copy           *)
(* signac_job_document.json.bak included.                                  *)
(***************************************************************************)
InitTree ==
    /\ definitions \in DefinitionStates
    /\ defineLog = <<>>
    /\ crawler = Crawler("RegexFileCrawler", WorkspaceDir)
    /\ cpc = "idle" /\ cerr = "none" /\ fileIdx = 0 /\ yielded = <<>>
    /\ provenance = <<>> /\ history = <<>>
    /\ jobDirs = [j \in Jobs |-> generate_hash_from_spec(StatePoints[j])]
    /\ badJobDocs = {}
    /\ backups \in SUBSET {1, 3}
    /\ index = EmptyIndex /\ ExportIdle /\ HashIdle
    /\ GenIdle /\ FetchIdle /\ JobIdle /\ CollIdle /\ ProcIdle /\ RaceIdle
    /\ definedOn = <<>>

TreeFrame ==
    UNCHANGED <<exportVars, hashVars, genVars, fetchVars, jobVars, collVars,
                restVars>>

NextTree ==
    \/ (\E cr \in CrawlerChoices : cpc = "idle" /\ StartCrawl(cr)) /\ TreeFrame
    \/ CrawlStep /\ TreeFrame
    \/ CrawlFinish /\ TreeFrame

SpecTree == InitTree /\ [][NextTree]_vars

(***************************************************************************)
(* fetch: the module-level fetch(doc), which reloads the access descriptor *)
(* named by the document and delegates to the sub-crawler it names, and    *)
(* RegexFileCrawler.fetch.  A fetch returns [handles, err]: the payload     *)
(* handles it yields, in order, and the exception that ended it.  err      *)
(* "CrawlerNotFound" stands for the KeyError("Unable to load crawler,      *)
(* associated with this document.") and "KeyError" for any other KeyError. *)
(***************************************************************************)
NoHandles == [handles |-> <<>>, err |-> "none"]
RaiseFetch(err) == [handles |-> <<>>, err |-> err]
HandlesThen(handles, rest) ==
    [handles |-> handles \o rest.handles, err |-> rest.err]

\* format_(open(ffn))
Handle(format, ffn) == [format |-> format, file |-> ffn]

\* What "for ... in self.definitions" iterates over: a dict gives its keys.
DictIter(defs) ==
    [i \in 1..Len(defs) |-> [kind |-> "key", regex |-> defs[i][1], format |-> ""]]

\* doc.get(KEY_FILENAME) is there and not empty
HasFilename(doc) ==
    /\ "filename" \in DOMAIN doc
    /\ doc["filename"].t = "str"
    /\ doc["filename"].v # <<>>

\* The loop of RegexFileCrawler.fetch from the i-th element on.  Unpacking
\* an element into (regex, format_) needs a pair: a key, a compiled
\* pattern, raises TypeError.
RECURSIVE RegexFetchFrom(_, _, _, _)
RegexFetchFrom(cr, els, fn, i) ==
    IF i > Len(els) THEN NoHandles
    ELSE IF els[i].kind # "item" THEN RaiseFetch("TypeError")
    ELSE IF Search(els[i].regex, Join(cr.root, fn))
    THEN HandlesThen(<<Handle(els[i].format, Join(cr.root, fn))>>,
                     RegexFetchFrom(cr, els, fn, i + 1))
    ELSE RegexFetchFrom(cr, els, fn, i + 1)

\* RegexFileCrawler.fetch
RegexFetch(cr, defs, doc) ==
    IF HasFilename(doc)
    THEN RegexFetchFrom(cr, DictIter(defs), doc["filename"].v, 1)
    ELSE NoHandles

\* crawler_module.get_crawlers(dirpath) of the descriptor as it is now
ReloadedCrawlers(dirpath) ==
    SelectSeq(get_crawlers(dirpath), LAMBDA c : c[1] \notin dropped)

\* crawler.fetch(doc), by the class of the crawler.  ProjectCrawler.fetch
\* calls fetch(doc) on the same document, which finds the same
\* ProjectCrawler again: the calls nest until the interpreter gives up.
SubFetch(cr, defs, doc) ==
    IF cr.cls = "ProjectCrawler" THEN RaiseFetch("RecursionError")
    ELSE RegexFetch(cr, defs, doc)

\* except KeyError: raise KeyError("Unable to load crawler, ...")
FetchExcept(sub) ==
    IF sub.err \in {"KeyError", "CrawlerNotFound"}
    THEN [handles |-> sub.handles, err |-> "CrawlerNotFound"]
    ELSE sub

\* The try block of fetch, crawlers being the reloaded mapping.
FetchTry(doc, defs, crawlers) ==
    IF "signac_access_crawler_id" \notin DOMAIN doc
    THEN RaiseFetch("KeyError")
    ELSE IF ~\E i \in 1..Len(crawlers) :
                crawlers[i][1] = doc["signac_access_crawler_id"]
    THEN RaiseFetch("KeyError")
    ELSE SubFetch(
            crawlers[CHOOSE i \in 1..Len(crawlers) :
                        crawlers[i][1] = doc["signac_access_crawler_id"]][2],
            defs, doc)

\* fetch(doc)
Fetch(doc, defs) ==
    IF ~({"signac_access_crawler_root", "signac_access_module"}
            \subseteq DOMAIN doc)
    THEN RaiseFetch("KeyError")
    ELSE FetchExcept(
            FetchTry(doc, defs,
                     ReloadedCrawlers(doc["signac_access_crawler_root"].v)))

Without(doc, key) == [k \in DOMAIN doc \ {key} |-> doc[k]]

\* The documents a crawl by cr yields.
CrawlDocs(cr) ==
    {p[2] : p \in Range(CrawlFrom(cr, definitions, walkdepth(cr.root), 1).pairs)}

\* The calls made: fetch on a document of a ProjectCrawler crawl, whole or
\* with one of its fields taken away, and RegexFileCrawler.fetch on a
\* document of that crawler's own crawl, with or without its 'filename'.
DropOne(docs, keys) == docs \cup {Without(d, k) : d \in docs, k \in keys}

FetchCallsOn(via, cr, docs) == {[via |-> via, crawler |-> cr, doc |-> d] : d \in docs}

FetchCalls ==
    FetchCallsOn("fetch", Crawler("ProjectCrawler", RootDir),
                 DropOne(CrawlDocs(Crawler("ProjectCrawler", RootDir)),
                         {"signac_access_crawler_root", "signac_access_module",
                          "signac_access_crawler_id"}))
    \cup
    FetchCallsOn("RegexFileCrawler.fetch",
                 Crawler("RegexFileCrawler", WorkspaceDir),
                 DropOne(CrawlDocs(Crawler("RegexFileCrawler", WorkspaceDir)),
                         {"filename"}))

FetchInit ==
    /\ definitions \in DefinitionStates
    /\ defineLog = <<>>
    /\ crawler = Crawler("RegexFileCrawler", WorkspaceDir)
    /\ cpc = "idle" /\ cerr = "none" /\ fileIdx = 0 /\ yielded = <<>>
    /\ provenance = <<>> /\ history = <<>>
    /\ jobDirs = [j \in Jobs |-> generate_hash_from_spec(StatePoints[j])]
    /\ badJobDocs = {}
    /\ dropped \in SUBSET {PyStr(<<"main">>), PyStr(<<"nested">>)}
    /\ fetchCall = <<>>
    /\ fetchOut = <<>>

\* A crawl is made and one of its documents is kept for a fetch.
PickDocument ==
    /\ fetchCall = <<>>
    /\ fetchCall' \in {<<c>> : c \in FetchCalls}
    /\ UNCHANGED <<dropped, fetchOut>>

\* list(fetch(doc))
FetchDocument ==
    /\ fetchCall # <<>> /\ fetchOut = <<>> /\ fetchCall[1].via = "fetch"
    /\ fetchOut' = <<Fetch(fetchCall[1].doc, definitions)>>
    /\ UNCHANGED <<fetchCall, dropped>>

\* list(crawler.fetch(doc)) on a RegexFileCrawler
FetchFromCrawler ==
    /\ fetchCall # <<>> /\ fetchOut = <<>>
    /\ fetchCall[1].via = "RegexFileCrawler.fetch"
    /\ fetchOut' = <<RegexFetch(fetchCall[1].crawler, definitions,
                                fetchCall[1].doc)>>
    /\ UNCHANGED <<fetchCall, dropped>>

InitFetch ==
    /\ FetchInit /\ index = EmptyIndex /\ ExportIdle /\ HashIdle
    /\ GenIdle /\ JobIdle /\ CollIdle /\ RestIdle

NextFetch ==
    \/ PickDocument /\ UNCHANGED <<exportVars, hashVars, crawlVars, index,
                                    genVars, jobVars, collVars, restVars>>
    \/ FetchDocument /\ UNCHANGED <<exportVars, hashVars, crawlVars, index,
                                     genVars, jobVars, collVars, restVars>>
    \/ FetchFromCrawler /\ UNCHANGED <<exportVars, hashVars, crawlVars, index,
                                        genVars, jobVars, collVars, restVars>>

SpecFetch == InitFetch /\ [][NextFetch]_vars

(***************************************************************************)
(* SimpleCollection driven directly by a caller that keeps the dict        *)
(* objects it passes in.  A dict object has an id; objects maps the id to  *)
(* the object's content and the index holds ids, as the code stores the    *)
(* object it is given and not a copy.                                      *)
(***************************************************************************)
CollObjects == {"x", "y"}

\* What the caller's documents hold at first: one has no '_id'.
CollDocs == {("a" :> PyInt(1)), ("_id" :> PyStr(<<"1">>)) @@ ("a" :> PyInt(1))}

\* The filters given to replace_one.
CollFilters ==
    {EmptyDoc,
     ("_id" :> PyStr(<<"1">>)),
     ("_id" :> PyStr(<<"2">>)),
     ("_id" :> PyStr(<<"1">>)) @@ ("a" :> PyInt(1)),
     ("a" :> PyInt(1))}

\* uuid.uuid4(): the n-th value generated, unlike every other value
Uuid4(n) == [t |-> "uuid", v |-> n]

\* list(collection.find()): the content of the documents held, by key
Find(objs, idx) == [k \in DOMAIN idx |-> objs[idx[k]]]

\* The collection and the caller's objects.
CollState(objs, idx, n, snap) ==
    [objects |-> objs, coll |-> idx, uuids |-> n, stored |-> snap]

\* insert_one(doc) on object o whose '_id', after setdefault, is _id
InsertOneThen(st, o, _id, generated) ==
    CollState([st.objects EXCEPT ![o] = SetDefault(@, "_id", _id)],
              ReplaceOneIndex(st.coll, ("_id" :> _id), o),
              st.uuids + generated,
              ReplaceOneIndex(st.stored, ("_id" :> _id),
                              SetDefault(st.objects[o], "_id", _id)))

\* SimpleCollection.insert_one; uuid4() is evaluated before setdefault.
InsertOneState(st, o) ==
    InsertOneThen(st, o,
                  SetDefault(st.objects[o], "_id", Uuid4(st.uuids + 1))["_id"],
                  1)

\* SimpleCollection.insert_many
RECURSIVE InsertManyState(_, _)
InsertManyState(st, docs) ==
    IF docs = <<>> THEN st
    ELSE InsertManyState(InsertOneState(st, Head(docs)), Tail(docs))

\* SimpleCollection.replace_one, when the filter is supported
ReplaceOneState(st, filter, o) ==
    CollState(st.objects,
              ReplaceOneIndex(st.coll, filter, o),
              st.uuids,
              ReplaceOneIndex(st.stored, filter, st.objects[o]))

CollNow == CollState(objects, coll, uuids, stored)

\* What is recorded of a call: the content of the caller's objects and of
\* the collection before it.
CollCalled(op, filter, docs, err) ==
    [n |-> collCall.n + 1, op |-> op, filter |-> filter, docs |-> docs,
     err |-> err, objectsBefore |-> objects, findBefore |-> Find(objects, coll)]

CollInit ==
    /\ objects \in [CollObjects -> CollDocs]
    /\ coll = <<>>
    /\ uuids = 0
    /\ stored = <<>>
    /\ collCall = [n |-> 0, op |-> "none", filter |-> EmptyDoc, docs |-> <<>>,
                   err |-> "none", objectsBefore |-> objects,
                   findBefore |-> <<>>]

CollSet(st) ==
    /\ objects' = st.objects
    /\ coll' = st.coll
    /\ uuids' = st.uuids
    /\ stored' = st.stored

InsertOne(o) ==
    /\ collCall.n < MaxCalls
    /\ CollSet(InsertOneState(CollNow, o))
    /\ collCall' = CollCalled("insert_one", EmptyDoc, <<o>>, "none")

InsertMany(docs) ==
    /\ collCall.n < MaxCalls
    /\ CollSet(InsertManyState(CollNow, docs))
    /\ collCall' = CollCalled("insert_many", EmptyDoc, docs, "none")

ReplaceOne(filter, o) ==
    /\ collCall.n < MaxCalls
    /\ IF ReplaceOneSupported(filter)
       THEN /\ CollSet(ReplaceOneState(CollNow, filter, o))
            /\ collCall' = CollCalled("replace_one", filter, <<o>>, "none")
       ELSE /\ UNCHANGED <<objects, coll, uuids, stored>>
            /\ collCall' = CollCalled("replace_one", filter, <<o>>,
                                      "NotImplementedError")

\* The caller changes a document object of its own: doc['a'] = 2
MutateDocument(o) ==
    /\ collCall.n < MaxCalls
    /\ objects' = [objects EXCEPT ![o] = SetItem(@, "a", PyInt(2))]
    /\ collCall' = CollCalled("mutate", EmptyDoc, <<o>>, "none")
    /\ UNCHANGED <<coll, uuids, stored>>

InitCollection ==
    /\ CollInit /\ index = EmptyIndex /\ ExportIdle /\ HashIdle /\ CrawlIdle
    /\ GenIdle /\ FetchIdle /\ JobIdle /\ RestIdle

CollFrame ==
    UNCHANGED <<exportVars, hashVars, crawlVars, index, genVars, fetchVars,
                jobVars, restVars>>

NextCollection ==
    \/ (\E o \in CollObjects : InsertOne(o)) /\ CollFrame
    \/ (\E o \in CollObjects : \E q \in CollObjects \ {o} :
            InsertMany(<<o, q>>)) /\ CollFrame
    \/ (\E f \in CollFilters, o \in CollObjects : ReplaceOne(f, o)) /\ CollFrame
    \/ (\E o \in CollObjects : MutateDocument(o)) /\ CollFrame

SpecCollection == InitCollection /\ [][NextCollection]_vars

(***************************************************************************)
(* Job (job.py).  A Job keeps the mapping object it was constructed with,  *)
(* not a copy: mappings holds the content of the caller's mapping objects  *)
(* and a Job records the id of its object.  The workspace maps each        *)
(* existing job directory to <<>> (no manifest) or <<blob>> (the text of   *)
(* its manifest file).                                                     *)
(***************************************************************************)
FN_MANIFEST == <<"signac_statepoint", ".json">>

\* project.workspace() and the directory the process starts in
ProjectWorkspace == <<"/", "ws">>
StartDir == <<"/", "home">>

\* A value json.dumps cannot serialize (a Python set).
PySet == [t |-> "set", v |-> 0]

Serializable(doc) == \A k \in DOMAIN doc : doc[k].t # "set"

\* The content of the caller's two mapping objects at first.
MappingIds == {"m1", "m2"}
FirstMappings == ("m1" :> ("a" :> PyInt(1))) @@ ("m2" :> ("a" :> PyInt(2)))

\* What the caller may later put into a mapping under key 'b'.
MutationValues == {PyInt(1), PySet}

\* The parameter sets a manifest of this model can hold.
ParameterSets ==
    UNION {[keys -> {PyInt(1), PyInt(2)}] : keys \in SUBSET {"a", "b"}}

\* hashing.calc_id: the identity of a parameter set, a digest of its
\* serialization that differs for different parameter sets.
calc_id(sp) ==
    IF Serializable(sp) THEN <<"id(">> \o JsonDumps(sp) \o <<")">>
    ELSE <<"TypeError">>

\* json.loads of a manifest blob: the parameter set with that serialization
JsonLoads(blob) == CHOOSE sp \in ParameterSets : JsonDumps(sp) = blob

\* Job.__init__
NewJobObject(m) ==
    [statepoint |-> m,
     id |-> calc_id(mappings[m]),
     wd |-> Join(ProjectWorkspace, calc_id(mappings[m])),
     cwd |-> <<>>]

\* Job.statepoint(): dict(self._statepoint)
JobStatepoint(job) == mappings[job.statepoint]

\* _mkdir_p(path)
MkdirP(ws, path) == IF path \in DOMAIN ws THEN ws ELSE ws @@ (path :> <<>>)

\* The failures of the file system a call can meet: creating a directory
\* that is not there yet, and writing into a file just created.
JobFailures(ws, job) ==
    {"none"}
    \cup (IF job.wd \notin DOMAIN ws THEN {"mkdir", "write"} ELSE {})
    \cup (IF job.wd \in DOMAIN ws /\ ws[job.wd] = <<>> THEN {"write"} ELSE {})

\* except Exception: os.remove(fn_manifest), errors ignored; raise
CreateCleanup(ws, wd, err) ==
    [workspace |-> [d \in DOMAIN ws |-> IF d = wd THEN <<>> ELSE ws[d]],
     err |-> err, wrote |-> FALSE]

\* The try block of _create_directory, on the workspace ws that has the
\* directory; sp is self.statepoint().
CreateTry(ws, wd, sp, overwrite, fail) ==
    IF ~Serializable(sp) THEN CreateCleanup(ws, wd, "TypeError")
    ELSE IF ws[wd] # <<>> /\ ~overwrite
    THEN \* open(fn_manifest, 'x') raises EEXIST, which is passed over
         [workspace |-> ws, err |-> "none", wrote |-> FALSE]
    ELSE IF fail = "write" THEN CreateCleanup(ws, wd, "IOError")
    ELSE [workspace |-> [ws EXCEPT ![wd] = <<JsonDumps(sp)>>],
          err |-> "none", wrote |-> TRUE]

\* Job._create_directory(overwrite)
CreateDirectory(ws, job, overwrite, fail) ==
    IF fail = "mkdir"
    THEN [workspace |-> ws, err |-> "OSError", wrote |-> FALSE]
    ELSE CreateTry(MkdirP(ws, job.wd), job.wd, JobStatepoint(job), overwrite,
                   fail)

\* What is recorded of a call on job h.
JobCalled(op, h, err, wrote, leaves) ==
    [n |-> jobCall.n + 1, op |-> op, job |-> h, err |-> err, wrote |-> wrote,
     leaves |-> leaves, workspaceBefore |-> workspace]

JobInitState ==
    /\ mappings = FirstMappings
    /\ jobs = <<>>
    /\ workspace = <<>>
    /\ cwd = StartDir
    /\ entered = <<>>
    /\ jobCall = [n |-> 0, op |-> "none", job |-> 0, err |-> "none",
                  wrote |-> FALSE, leaves |-> <<>>, workspaceBefore |-> <<>>]

\* Job(project, statepoint) on the caller's mapping object m
NewJob(m) ==
    /\ Len(jobs) < MaxJobs
    /\ Serializable(mappings[m])
    /\ jobs' = Append(jobs, NewJobObject(m))
    /\ UNCHANGED <<mappings, workspace, cwd, entered, jobCall>>

\* The caller changes the mapping object it gave to a Job: m['b'] = val
MutateStatepoint(m, val) ==
    /\ "b" \notin DOMAIN mappings[m]
    /\ \E h \in 1..Len(jobs) : jobs[h].statepoint = m
    /\ mappings' = [mappings EXCEPT ![m] = SetItem(@, "b", val)]
    /\ UNCHANGED <<jobs, workspace, cwd, entered, jobCall>>

\* _create_directory returned r inside init
JobInitThen(h, r) ==
    /\ workspace' = r.workspace
    /\ jobCall' = JobCalled("init", h, r.err, r.wrote, <<>>)

\* Job.init()
JobInit(h, fail) ==
    /\ jobCall.n < MaxJobCalls
    /\ fail \in JobFailures(workspace, jobs[h])
    /\ JobInitThen(h, CreateDirectory(workspace, jobs[h], FALSE, fail))
    /\ UNCHANGED <<mappings, jobs, cwd, entered>>

\* _create_directory returned r inside open, self._cwd being set already
JobOpenThen(h, r) ==
    /\ jobs' = [jobs EXCEPT ![h].cwd = <<cwd>>]
    /\ workspace' = r.workspace
    /\ cwd' = IF r.err = "none" THEN jobs[h].wd ELSE cwd
    /\ entered' = IF r.err = "none"
                   THEN Append(entered, [job |-> h, cwd |-> cwd])
                   ELSE entered
    /\ jobCall' = JobCalled("open", h, r.err, r.wrote, <<>>)

\* Job.open(), as __enter__ calls it
JobOpen(h, fail) ==
    /\ jobCall.n < MaxJobCalls
    /\ IF jobs[h].cwd = <<>>
       THEN /\ fail \in JobFailures(workspace, jobs[h])
            /\ JobOpenThen(h, CreateDirectory(workspace, jobs[h], FALSE, fail))
       ELSE \* the job is opened already: nothing is done
            /\ fail = "none"
            /\ entered' = Append(entered, [job |-> h, cwd |-> cwd])
            /\ jobCall' = JobCalled("open", h, "none", FALSE, <<>>)
            /\ UNCHANGED <<jobs, workspace, cwd>>
    /\ UNCHANGED mappings

\* Job.close(), as __exit__ calls it when the innermost with block of job h
\* is left
JobClose(h) ==
    /\ jobCall.n < MaxJobCalls
    /\ entered # <<>> /\ entered[Len(entered)].job = h
    /\ entered' = SubSeq(entered, 1, Len(entered) - 1)
    /\ IF jobs[h].cwd = <<>>
       THEN \* os.chdir(None)
            /\ jobCall' = JobCalled("close", h, "TypeError", FALSE,
                                    <<entered[Len(entered)]>>)
            /\ UNCHANGED <<jobs, cwd>>
       ELSE /\ cwd' = jobs[h].cwd[1]
            /\ jobs' = [jobs EXCEPT ![h].cwd = <<>>]
            /\ jobCall' = JobCalled("close", h, "none", FALSE,
                                    <<entered[Len(entered)]>>)
    /\ UNCHANGED <<mappings, workspace>>

InitJob ==
    /\ JobInitState /\ index = EmptyIndex /\ ExportIdle /\ HashIdle
    /\ CrawlIdle /\ GenIdle /\ FetchIdle /\ CollIdle /\ RestIdle

JobFrame ==
    UNCHANGED <<exportVars, hashVars, crawlVars, index, genVars, fetchVars,
                collVars, restVars>>

JobFailureNames == {"none", "mkdir", "write"}

NextJob ==
    \/ (\E m \in MappingIds : NewJob(m)) /\ JobFrame
    \/ (\E m \in MappingIds, val \in MutationValues : MutateStatepoint(m, val))
          /\ JobFrame
    \/ (\E h \in 1..Len(jobs), fail \in JobFailureNames : JobInit(h, fail))
          /\ JobFrame
    \/ (\E h \in 1..Len(jobs), fail \in JobFailureNames : JobOpen(h, fail))
          /\ JobFrame
    \/ (\E h \in 1..Len(jobs) : JobClose(h)) /\ JobFrame

SpecJob == InitJob /\ [][NextJob]_vars

(***************************************************************************)
(* Job.init() called by several processes, each on its own Job instance    *)
(* built from the same statepoint in the same project workspace.  The      *)
(* processes share the file system only; a step is one system call of      *)
(* _create_directory or the code between two of them.  At first the job    *)
(* directory is absent, or there without a manifest, or there with the     *)
(* manifest an earlier run wrote (creator 0).                              *)
(*   mkdir -> dumps -> open -> write -> returned                           *)
(*                      |        |                                         *)
(*                      |        +-> cleanup -> raised                     *)
(*                      +-> returned (EEXIST passed over)                  *)
(*                      +-> cleanup -> raised (another error)              *)
(***************************************************************************)
Processes == 1..MaxProcs

\* The statepoint the Jobs are built from.
SharedStatepoint == ("a" :> PyInt(1))

\* The errors open(fn_manifest, 'x') and the write can end with besides
\* EEXIST: too many open files, no space left on the device.
OpenFaults == {"none", "EMFILE"}
WriteFaults == {"none", "ENOSPC"}

RaceInit ==
    /\ procs = [p \in Processes |-> [pc |-> "mkdir", blob |-> <<>>,
                                     err |-> "none"]]
    /\ wsDir \in BOOLEAN
    /\ manifestFile \in
          IF wsDir THEN {<<>>, <<[text |-> JsonDumps(SharedStatepoint),
                                  creator |-> 0]>>}
          ELSE {<<>>}
    /\ removed = <<>>

\* _mkdir_p(self.workspace()): EEXIST on a directory is passed over
RaceMkdir(p) ==
    /\ procs[p].pc = "mkdir"
    /\ wsDir' = TRUE
    /\ procs' = [procs EXCEPT ![p].pc = "dumps"]
    /\ UNCHANGED <<manifestFile, removed>>

\* blob = json.dumps(self.statepoint(), indent=2)
RaceDumps(p) ==
    /\ procs[p].pc = "dumps"
    /\ procs' = [procs EXCEPT ![p].pc = "open",
                              ![p].blob = JsonDumps(SharedStatepoint)]
    /\ UNCHANGED <<wsDir, manifestFile, removed>>

\* open(fn_manifest, 'x'): creates the file empty, or raises.  EEXIST is
\* passed over by the inner except and init() returns; any other error
\* is raised again and reaches the outer except.
RaceOpen(p, fault) ==
    /\ procs[p].pc = "open"
    /\ IF fault # "none"
       THEN /\ procs' = [procs EXCEPT ![p].pc = "cleanup", ![p].err = fault]
            /\ UNCHANGED manifestFile
       ELSE IF manifestFile # <<>>
       THEN /\ procs' = [procs EXCEPT ![p].pc = "returned"]
            /\ UNCHANGED manifestFile
       ELSE /\ manifestFile' = <<[text |-> <<>>, creator |-> p]>>
            /\ procs' = [procs EXCEPT ![p].pc = "write"]
    /\ UNCHANGED <<wsDir, removed>>

\* file.write(blob) and the close of the with block, on the file the
\* process holds open: the text reaches the file it created, if that file
\* is still the one at the path.
RaceWrite(p, fault) ==
    /\ procs[p].pc = "write"
    /\ IF fault # "none"
       THEN /\ procs' = [procs EXCEPT ![p].pc = "cleanup", ![p].err = fault]
            /\ UNCHANGED manifestFile
       ELSE /\ procs' = [procs EXCEPT ![p].pc = "returned"]
            /\ manifestFile' =
                  IF manifestFile # <<>> /\ manifestFile[1].creator = p
                  THEN <<[text |-> procs[p].blob, creator |-> p]>>
                  ELSE manifestFile
    /\ UNCHANGED <<wsDir, removed>>

\* except Exception: os.remove(fn_manifest), its errors ignored; raise
RaceCleanup(p) ==
    /\ procs[p].pc = "cleanup"
    /\ procs' = [procs EXCEPT ![p].pc = "raised"]
    /\ manifestFile' = <<>>
    /\ removed' = IF manifestFile = <<>> THEN removed
                  ELSE Append(removed, [by |-> p, file |-> manifestFile[1]])
    /\ UNCHANGED wsDir

InitRace ==
    /\ RaceInit /\ index = EmptyIndex /\ ExportIdle /\ HashIdle /\ CrawlIdle
    /\ GenIdle /\ FetchIdle /\ JobIdle /\ CollIdle /\ ProcIdle
    /\ definedOn = <<>> /\ backups = {}

RaceFrame ==
    UNCHANGED <<exportVars, hashVars, crawlVars, index, genVars, fetchVars,
                jobVars, collVars, procVars, definedOn, backups>>

NextRace ==
    \/ (\E p \in Processes : RaceMkdir(p)) /\ RaceFrame
    \/ (\E p \in Processes : RaceDumps(p)) /\ RaceFrame
    \/ (\E p \in Processes, fault \in OpenFaults : RaceOpen(p, fault))
          /\ RaceFrame
    \/ (\E p \in Processes, fault \in WriteFaults : RaceWrite(p, fault))
          /\ RaceFrame
    \/ (\E p \in Processes : RaceCleanup(p)) /\ RaceFrame

SpecRace == InitRace /\ [][NextRace]_vars

(***************************************************************************)
(* Properties of the export drivers, checked under SpecExport.             *)
(***************************************************************************)
\* The upsert operation export_pymongo builds for the i-th pair of the stream.
StreamOp(i) == PymongoReplaceOne(("_id" :> stream[i][1]), stream[i][2])

\* The operations passed to bulk_write so far, in the order they were passed.
Written == Flatten(flushes)

\* C1: when the crawl completes normally, export_pymongo has passed every
\* pair of the crawl to bulk_write exactly once and in crawl order; every
\* flush but the last holds exactly chunksize operations, the last one the
\* non-empty remainder; and no bulk_write is ever given an empty batch.
C1_ChunkedFlushes ==
    /\ \A i \in 1..Len(flushes) : Len(flushes[i]) >= 1
    /\ (driver = "export_pymongo" /\ xpc = "done") =>
          /\ Written = [i \in 1..Len(stream) |-> StreamOp(i)]
          /\ \A i \in 1..(Len(flushes) - 1) : Len(flushes[i]) = chunksize
          /\ Len(flushes) > 0 =>
                Len(flushes[Len(flushes)]) =
                    Len(stream) - chunksize * (Len(flushes) - 1)
          /\ Len(flushes) > 0 => Len(flushes[Len(flushes)]) <= chunksize

\* A run of export_pymongo that ended normally after full chunks and a
\* final flush of a shorter remainder.
C1_Witness ==
    /\ driver = "export_pymongo" /\ xpc = "done"
    /\ Len(flushes) >= 2
    /\ Len(flushes[1]) = chunksize /\ chunksize >= 2
    /\ Len(flushes[Len(flushes)]) < chunksize

\* C2: if the crawl raises partway through export_pymongo, every pair the
\* crawl yielded before the failure has been passed to bulk_write when
\* export_pymongo exits.
C2_TailFlushedOnFailure ==
    (driver = "export_pymongo" /\ xpc = "raised" /\ xerr = "CrawlError") =>
        Written = [i \in 1..pos |-> StreamOp(i)]

\* C3: neither driver upserts a pair whose document carries an '_id' other
\* than the key: the driver fails on its assertion before the write.
C3_InconsistentPairNeverWritten ==
    /\ \A i \in 1..Len(replaced) :
          replaced[i].doc["_id"] = replaced[i].filter["_id"]
    /\ \A i \in 1..Len(Written) :
          Written[i].doc["_id"] = Written[i].filter["_id"]
    /\ \A i \in 1..pos :
          stream[i][2]["_id"] # stream[i][1] =>
              xpc = "raised" /\ xerr = "AssertionError"

(***************************************************************************)
(* Properties of calculate_hash, checked under SpecHash.                   *)
(***************************************************************************)
\* C7: two (document, dirpath, filename) triples that differ in any of the
\* three get different byte sequences fed to the digest, hence different
\* keys.
C7_HashDistinguishesInputs ==
    hashOut # <<>> => (hashIn[1] # hashIn[2] => hashOut[1] # hashOut[2])

(***************************************************************************)
(* Properties of the crawlers, checked under Spec.                         *)
(***************************************************************************)
\* The jobs whose directory name is not the identity of their manifest.
CorruptJobs ==
    {j \in Jobs : jobDirs[j] # generate_hash_from_spec(StatePoints[j])}

\* The files of the walk that lie in the directory of a valid job.
ValidJobFiles(root) ==
    {f \in Range(walkdepth(root)) :
        \E j \in Jobs \ CorruptJobs : f.dirpath = JobPath(j)}

\* The corruption conditions an ended crawl has signalled: the failed
\* assertion of get_statepoint is the only signal the crawler has.
CorruptionReports(h) == IF h.err = "AssertionError" THEN 1 ELSE 0

\* C4: a SignacProjectCrawler crawl of a root with N corrupted job
\* directories is not aborted, reports exactly N corruption entries and
\* yields the documents of every valid job.
C4_CorruptJobsReportedWalkGoesOn ==
    \A i \in 1..Len(history) :
        history[i].crawler.cls = "SignacProjectCrawler" =>
            /\ history[i].outcome = "done"
            /\ CorruptionReports(history[i]) = Cardinality(CorruptJobs)
            /\ \A f \in ValidJobFiles(history[i].crawler.root) :
                  Range(CrawlFile(history[i].crawler, history[i].defs, f).pairs)
                      \subseteq Range(history[i].yielded)

\* The indices of the documents of crawl h that come from the file at path.
DocsOfFile(h, path) ==
    {k \in 1..Len(h.yielded) :
        h.yielded[k][2]["filename"] = PyStr(RelPath(path, h.crawler.root))}

\* The define calls made before crawl h whose pattern matches path.
MatchingRegistrations(h, path) ==
    {i \in 1..Len(h.log) : Search(h.log[i][1], path)}

\* C5: a RegexFileCrawler crawl yields, for every file, exactly one document
\* per define(pattern, format) call whose pattern matches the file's path,
\* each stamped with the format of its registration.
C5_OneDocumentPerRegistration ==
    \A i \in 1..Len(history) :
        (history[i].crawler.cls = "RegexFileCrawler"
            /\ history[i].outcome = "done") =>
            \A f \in Range(walkdepth(history[i].crawler.root)) :
                /\ Cardinality(DocsOfFile(history[i], Join(f.dirpath, f.fn)))
                     = Cardinality(MatchingRegistrations(history[i],
                                                         Join(f.dirpath, f.fn)))
                /\ \A r \in MatchingRegistrations(history[i],
                                                  Join(f.dirpath, f.fn)) :
                      \E k \in DocsOfFile(history[i], Join(f.dirpath, f.fn)) :
                          history[i].yielded[k][2]["format"] =
                              PyStr(<<history[i].log[r][2]>>)

\* Crawls i and k > i both completed, by the same crawler with the same
\* registrations (the tree never changes).
SameCrawlTwice(i, k) ==
    /\ i < k
    /\ history[i].outcome = "done" /\ history[k].outcome = "done"
    /\ history[i].crawler = history[k].crawler
    /\ history[i].defs = history[k].defs

WithoutId(doc) == [k \in DOMAIN doc \ {"_id"} |-> doc[k]]

\* C8: every pair (key, doc) that crawl yields has doc['_id'] = key and a
\* 'format' entry; the key is the '_id' the extractor put in the document
\* when there is one and calculate_hash(doc, dirpath, fn) otherwise; and a
\* format set by the extractor is kept.
C8_YieldedKeyIsDocumentId ==
    /\ Len(provenance) = Len(yielded)
    /\ \A i \in 1..Len(yielded) :
          /\ yielded[i][2]["_id"] = yielded[i][1]
          /\ "format" \in DOMAIN yielded[i][2]
          /\ "_id" \in DOMAIN provenance[i].extracted =>
                yielded[i][1] = provenance[i].extracted["_id"]
          /\ "_id" \notin DOMAIN provenance[i].extracted =>
                yielded[i][1] = calculate_hash(WithoutId(yielded[i][2]),
                                               provenance[i].file.dirpath,
                                               provenance[i].file.fn)
          /\ "format" \in DOMAIN provenance[i].extracted =>
                yielded[i][2]["format"] = provenance[i].extracted["format"]

\* A crawl that has yielded a pair keyed by the extractor's own '_id' and a
\* pair keyed by the hash, the latter with the extractor's format.
C8_Witness ==
    \E i \in 1..Len(yielded), k \in 1..Len(yielded) :
        /\ "_id" \in DOMAIN provenance[i].extracted
        /\ "_id" \notin DOMAIN provenance[k].extracted
        /\ yielded[k][1].t = "md5"
        /\ yielded[k][2]["format"] = PyStr(<<"Raw">>)

\* doc carries the identity of parameter set sp and, for every key of sp,
\* the value sp has: in its fields, or under 'statepoint'.
CarriesJob(doc, sp) ==
    /\ "signac_id" \in DOMAIN doc
    /\ doc["signac_id"] = PyStr(generate_hash_from_spec(sp))
    /\ \/ \A k \in DOMAIN sp : k \in DOMAIN doc /\ doc[k] = sp[k]
       \/ "statepoint" \in DOMAIN doc /\ doc["statepoint"] = PyDict(sp)

\* C9: every document SignacProjectCrawler yields for a file of a job
\* directory carries the job's identity and parameter set, each manifest
\* key with exactly the manifest's value.
C9_JobParametersKept ==
    crawler.cls = "SignacProjectCrawler" =>
        \A i \in 1..Len(yielded) :
            ManifestOf(provenance[i].file.dirpath) # <<>> =>
                CarriesJob(yielded[i][2],
                           ManifestOf(provenance[i].file.dirpath)[1])

AddressKeys == {"project", "signac_access_crawler_root",
                "signac_access_module", "signac_access_crawler_id"}

\* doc is document sub of sub-crawler c = <<id, crawler>> of the descriptor
\* file f, with the three address fields that locate the sub-crawler.
DelegatedFrom(doc, f, c, sub) ==
    /\ doc["signac_access_crawler_id"] = c[1]
    /\ doc["signac_access_crawler_root"] = PyStr(AbsPath(f.dirpath))
    /\ doc["signac_access_module"] = PyStr(f.fn)
    /\ \A k \in DOMAIN sub \ AddressKeys : k \in DOMAIN doc /\ doc[k] = sub[k]

\* The documents sub-crawler c = <<id, crawler>> yields.
SubCrawlDocs(c) ==
    {p[2] : p \in Range(CrawlFrom(c[2], definitions, walkdepth(c[2].root), 1).pairs)}

\* C10 as stated: every document of a ProjectCrawler crawl has the four
\* address fields, 'project' being the descriptor's directory relative to
\* the crawl root whatever the sub-crawler's document held.
C10_AddressFieldsAssigned ==
    crawler.cls = "ProjectCrawler" =>
        \A i \in 1..Len(yielded) :
            \E c \in Range(get_crawlers(provenance[i].file.dirpath)) :
                \E sub \in SubCrawlDocs(c) :
                    /\ DelegatedFrom(yielded[i][2], provenance[i].file, c, sub)
                    /\ yielded[i][2]["project"] =
                          PyStr(RelPath(provenance[i].file.dirpath, crawler.root))

\* C10 amended: 'project' is the sub-crawler document's own 'project' entry
\* when it has one, and the relative path of the descriptor's directory
\* otherwise; the three other address fields are as stated.
C10_AddressFieldsProjectKept ==
    crawler.cls = "ProjectCrawler" =>
        \A i \in 1..Len(yielded) :
            \E c \in Range(get_crawlers(provenance[i].file.dirpath)) :
                \E sub \in SubCrawlDocs(c) :
                    /\ DelegatedFrom(yielded[i][2], provenance[i].file, c, sub)
                    /\ yielded[i][2]["project"] =
                          IF "project" \in DOMAIN sub THEN sub["project"]
                          ELSE PyStr(RelPath(provenance[i].file.dirpath,
                                             crawler.root))

\* A completed ProjectCrawler crawl with a document of a nested delegating
\* crawler, which had its own 'project', and a document of a plain one.
C10_Witness ==
    /\ crawler.cls = "ProjectCrawler" /\ cpc = "done"
    /\ \E i \in 1..Len(yielded), k \in 1..Len(yielded) :
          /\ yielded[i][2]["signac_access_crawler_id"] = PyStr(<<"nested">>)
          /\ yielded[i][2]["project"] = PyStr(<<"n">>)
          /\ yielded[i][2]["signac_access_crawler_root"] = PyStr(RootDir)
          /\ yielded[k][2]["signac_access_crawler_id"] = PyStr(<<"main">>)
          /\ yielded[k][2]["project"] = PyStr(<<".">>)

\* C13: a file whose reading or parsing fails (a job document that is not
\* valid JSON) is skipped: no crawl ends on that failure, and an ended crawl
\* has yielded the documents of every file that can be read.
C13_UnreadableFileSkipped ==
    \A i \in 1..Len(history) :
        /\ history[i].err # "ValueError"
        /\ history[i].crawler.cls # "ProjectCrawler" =>
              \A f \in Range(walkdepth(history[i].crawler.root)) :
                  CrawlFile(history[i].crawler, history[i].defs, f).err = "none"
                      => Range(CrawlFile(history[i].crawler,
                                         history[i].defs, f).pairs)
                            \subseteq Range(history[i].yielded)

ReservedFields == {"_id", "format", "filename", "root"}

\* C19: every document a crawl yields has the four reserved fields '_id',
\* 'format', 'filename' and 'root'.
C19_ReservedFieldsPresent ==
    \A i \in 1..Len(yielded) : ReservedFields \subseteq DOMAIN yielded[i][2]

(***************************************************************************)
(* Properties of interleaved crawls, checked under SpecInterleave.         *)
(***************************************************************************)
IsPrefix(a, b) == Len(a) <= Len(b) /\ SubSeq(b, 1, Len(a)) = a

\* What instance k's crawl yields, and how it ends, when iterated alone.
Alone(k) ==
    CrawlFrom(gens[k].crawler, definitions, walkdepth(gens[k].crawler.root), 1)

RecordedIdAbsent(doc) ==
    /\ AddressKeys \ {"project"} \subseteq DOMAIN doc
    /\ \A c \in Range(ReloadedCrawlers(doc["signac_access_crawler_root"].v)) :
          c[1] # doc["signac_access_crawler_id"]

\* C11: fetch(doc) ends with the crawler-not-found condition exactly when
\* the sub-crawler id recorded in doc is absent from the reloaded
\* descriptor's mapping; a document lacking an address field is not
\* reported as crawler-not-found.
C11_NotFoundOnlyOnDrift ==
    (fetchOut # <<>> /\ fetchCall[1].via = "fetch") =>
        (fetchOut[1].err = "CrawlerNotFound"
            <=> RecordedIdAbsent(fetchCall[1].doc))

\* The handles the registrations whose pattern matches the file of doc stand
\* for: the registration's format around the file.
ExpectedHandles(cr, doc) ==
    {Handle(definitions[i][2], Join(cr.root, doc["filename"].v)) :
        i \in {k \in 1..Len(definitions) :
                  Search(definitions[k][1], Join(cr.root, doc["filename"].v))}}

\* C12: RegexFileCrawler.fetch on a document of that crawler's crawl yields
\* one handle for each registration whose pattern matches the document's
\* file, at least one, and no handle for a document without 'filename'.
C12_FetchReopensSourceFile ==
    (fetchOut # <<>> /\ fetchCall[1].via = "RegexFileCrawler.fetch") =>
        /\ fetchOut[1].err = "none"
        /\ IF HasFilename(fetchCall[1].doc)
           THEN /\ Range(fetchOut[1].handles) =
                       ExpectedHandles(fetchCall[1].crawler, fetchCall[1].doc)
                /\ Len(fetchOut[1].handles) =
                       Cardinality(ExpectedHandles(fetchCall[1].crawler,
                                                   fetchCall[1].doc))
                /\ Len(fetchOut[1].handles) >= 1
           ELSE fetchOut[1].handles = <<>>

(***************************************************************************)
(* Properties of SimpleCollection, checked under SpecCollection.           *)
(***************************************************************************)
\* C17: replace_one(filter, doc) either fails with the unsupported-query
\* error and leaves the index unchanged, which it does whenever the keys of
\* the filter are not exactly {'_id'}, or sets the entry keyed
\* filter['_id'] to doc, inserting it when absent, and leaves every other
\* entry unchanged.
C17_ReplaceOneSetsOneEntry ==
    collCall.op = "replace_one" =>
        IF DOMAIN collCall.filter # {"_id"}
        THEN /\ collCall.err = "NotImplementedError"
             /\ Find(objects, coll) = collCall.findBefore
        ELSE /\ collCall.err = "none"
             /\ DOMAIN coll = DOMAIN collCall.findBefore
                                 \cup {collCall.filter["_id"]}
             /\ coll[collCall.filter["_id"]] = collCall.docs[1]
             /\ \A k \in DOMAIN coll \ {collCall.filter["_id"]} :
                   Find(objects, coll)[k] = collCall.findBefore[k]

\* replace_one has refused a filter that has '_id' and another key, on a
\* collection that held a document, and has replaced a document before.
C17_Witness ==
    /\ collCall.op = "replace_one"
    /\ collCall.err = "NotImplementedError"
    /\ "_id" \in DOMAIN collCall.filter
    /\ PyStr(<<"1">>) \in DOMAIN coll
    /\ PyStr(<<"2">>) \in DOMAIN coll

\* C18: what find returns for a key is what the document held when it was
\* stored, whatever the caller did to its object since, and a call that
\* stores a document leaves the caller's objects as they were.
C18_StoredDocumentsAreSnapshots ==
    /\ \A k \in DOMAIN coll : Find(objects, coll)[k] = stored[k]
    /\ collCall.op \in {"insert_one", "insert_many", "replace_one"} =>
          objects = collCall.objectsBefore

(***************************************************************************)
(* Properties of Job, checked under SpecJob.                               *)
(***************************************************************************)
\* C14: for every Job the identity of job.statepoint() is job.get_id() and
\* the name of its workspace directory under the project workspace, and a
\* manifest the job has just written deserializes to a parameter set of
\* that identity, also after the caller changed the mapping it passed in.
C14_IdentityMatchesStatepoint ==
    /\ \A h \in 1..Len(jobs) :
          /\ calc_id(JobStatepoint(jobs[h])) = jobs[h].id
          /\ jobs[h].wd = Join(ProjectWorkspace, jobs[h].id)
    /\ jobCall.wrote =>
          calc_id(JsonLoads(workspace[jobs[jobCall.job].wd][1]))
              = jobs[jobCall.job].id

\* C15: init() on a job whose manifest file exists returns normally and
\* leaves the workspace, the manifest's content included, as it was.
C15_InitKeepsExistingManifest ==
    (/\ jobCall.op = "init"
     /\ jobs[jobCall.job].wd \in DOMAIN jobCall.workspaceBefore
     /\ jobCall.workspaceBefore[jobs[jobCall.job].wd] # <<>>) =>
        /\ jobCall.err = "none"
        /\ workspace = jobCall.workspaceBefore

\* C16: every leave of a properly nested sequence of enters and leaves
\* succeeds and puts the working directory back to what it was at the
\* matching enter; after the outermost leave it is the directory from
\* before the first enter.
C16_LeaveRestoresDirectory ==
    jobCall.op = "close" =>
        /\ jobCall.err = "none"
        /\ cwd = jobCall.leaves[1].cwd
        /\ entered = <<>> => cwd = StartDir

(***************************************************************************)
(* C21: RegexFileCrawler.process gives, for every captured text, the       *)
(* integer when int() accepts the text, otherwise the float when float()   *)
(* accepts it, otherwise the text itself; and the result has exactly the   *)
(* captured group names as its keys.                                       *)
(***************************************************************************)
C21_CoercionIntThenFloatThenText ==
    processOut # <<>> =>
        /\ processOut[1].err = "none"
        /\ DOMAIN processOut[1].doc = DOMAIN groupdict
        /\ \A k \in DOMAIN groupdict :
              processOut[1].doc[k] =
                  IF IntOf(groupdict[k]).r = "ok" THEN IntOf(groupdict[k]).val
                  ELSE IF FloatOf(groupdict[k]).r = "ok"
                  THEN FloatOf(groupdict[k]).val
                  ELSE groupdict[k]

\* process has run on a match with two groups: one captured digits, which
\* both int() and float() accept, and its value came out an integer.
C21_Witness ==
    /\ processOut # <<>>
    /\ DOMAIN groupdict = {"a", "b"}
    /\ groupdict["a"].v = <<"1", "5">>
    /\ processOut[1].doc["a"] = PyInt(15)
    /\ processOut[1].doc["b"] = PyStr(<<"a">>)

(***************************************************************************)
(* C22: when open() returns normally the process is in the job's           *)
(* workspace, also when an earlier open() of the job failed in             *)
(* _create_directory.  Stated for an open() made while no other with block *)
(* is active.                                                              *)
(***************************************************************************)
C22_OpenEntersWorkspace ==
    (/\ jobCall.op = "open" /\ jobCall.err = "none"
     /\ Len(entered) = 1) =>
        /\ cwd = jobs[jobCall.job].wd
        /\ jobs[jobCall.job].cwd = <<entered[1].cwd>>

(***************************************************************************)
(* C23: with processes calling init() on the same job at once, once an     *)
(* init() has returned normally the manifest exists and holds the whole    *)
(* serialized statepoint, and the error cleanup of a process never removes *)
(* a manifest file another process created.                                *)
(***************************************************************************)
C23_ConcurrentInitLeavesManifest ==
    /\ (\E p \in Processes : procs[p].pc = "returned") =>
          /\ manifestFile # <<>>
          /\ manifestFile[1].text = JsonDumps(SharedStatepoint)
    /\ \A i \in 1..Len(removed) :
          removed[i].file.creator \notin Processes \ {removed[i].by}

(***************************************************************************)
(* C24: for a crawl output that completes normally and any chunksize, the  *)
(* collection the bulk upsert batches of export_pymongo build, applied in  *)
(* order, is the collection export builds with one replace_one per pair;   *)
(* for a key yielded more than once the document yielded last is the one   *)
(* stored.                                                                 *)
(***************************************************************************)
LastYielded(k) ==
    stream[CHOOSE i \in 1..Len(stream) :
              /\ stream[i][1] = k
              /\ \A j \in (i + 1)..Len(stream) : stream[j][1] # k][2]

ConsistentStream == \A i \in 1..Len(stream) : stream[i][2]["_id"] = stream[i][1]

C24_DriversBuildSameCollection ==
    /\ (driver = "export_pymongo" /\ xpc = "done") =>
          /\ BulkWrites(EmptyIndex, flushes) = ExportPairs(EmptyIndex, stream)
          /\ \A k \in DOMAIN BulkWrites(EmptyIndex, flushes) :
                BulkWrites(EmptyIndex, flushes)[k] = LastYielded(k)
    /\ (driver = "export" /\ xpc = "done" /\ ConsistentStream) =>
          /\ index = BulkWrite(EmptyIndex, [i \in 1..Len(stream) |-> StreamOp(i)])
          /\ \A k \in DOMAIN index : index[k] = LastYielded(k)

\* export_pymongo ended normally after two bulk_write calls, the second of
\* which replaced a document the first had stored under the same key.
C24_Witness ==
    /\ driver = "export_pymongo" /\ xpc = "done"
    /\ Len(flushes) = 2
    /\ \E i \in 1..Len(flushes[1]), j \in 1..Len(flushes[2]) :
          /\ flushes[1][i].filter = flushes[2][j].filter
          /\ flushes[1][i].doc # flushes[2][j].doc
    /\ Cardinality(DOMAIN BulkWrites(EmptyIndex, flushes)) = 2

(***************************************************************************)
(* C25: a define call made on one crawler class affects the crawls of      *)
(* that class only: what a crawl of a class yields, and how it ends, is    *)
(* what it would be with the registrations made on that class alone.       *)
(***************************************************************************)
CrawlWith(defs) == CrawlFrom(crawler, defs, walkdepth(crawler.root), 1)

C25_RegistrationsArePerClass ==
    cpc \in {"done", "raised"} =>
        /\ yielded = CrawlWith(OwnDefinitions(crawler.cls)).pairs
        /\ cerr = CrawlWith(OwnDefinitions(crawler.cls)).err

(***************************************************************************)
(* C26: within one crawl no two yielded pairs carry the same key, so a     *)
(* crawl exported into an empty SimpleCollection stores as many documents  *)
(* as it yielded.                                                          *)
(***************************************************************************)
C26_KeysUniqueWithinCrawl ==
    /\ \A i \in 1..Len(yielded) : \A j \in 1..Len(yielded) :
          yielded[i][1] = yielded[j][1] => i = j
    /\ (cpc = "done" /\ Len(history) = 1) =>
          Cardinality(DOMAIN index) = Len(yielded)

====
